---------------------------- MODULE Spec2Model ----------------------------
(***************************************************************************)
(* A model of the LexGuard clause risk pipeline: clause segmentation,      *)
(* rule-based classification, risk scoring, the vector index and the HTTP  *)
(* handlers that glue them to the file store.                              *)
(*                                                                         *)
(* Conventions                                                             *)
(*  - A risk score is an integer number of thousandths (600 is 0.6).       *)
(*    Every rule delta is a multiple of 0.05 and every completion score    *)
(*    the model draws is a multiple of 0.01, so 0.7*l + 0.3*r is exact in  *)
(*    thousandths.  Floating-point rounding is not modelled.               *)
(*  - A clause text (classifier, scorer, handlers) is a sequence of words; *)
(*    the string it stands for is the words joined by single blanks.  A    *)
(*    regular expression of the source is modelled by the word sequences   *)
(*    of the vocabulary it matches.                                        *)
(*  - A contract text (segmenter) is a sequence of one-character strings.  *)
(*  - Python's None is the empty sequence, a present value v is <<v>>.     *)
(***************************************************************************)
EXTENDS Integers, Sequences, FiniteSets, TLC

VARIABLES
    settings,   \* lexguard.config.settings: fixed for the life of the process
    contracts,  \* file store: contract id -> the persisted contract, or None
    index,      \* vector collection: entry id -> the stored entry, or None
    response,   \* what the last request or index call returned
    args,       \* arguments of the function under test (function-level specifications)
    result      \* its return value, Pending before the call

vars == <<settings, contracts, index, response, args, result>>

None == << >>
Some(v) == <<v>>

Pending == [pending |-> TRUE]
Idle == [idle |-> TRUE]

-----------------------------------------------------------------------------
(* Bounds of the model.                                                    *)

MaxRiskWords == 2      \* longest clause text given to the rule scorer
MaxScoreExcess == 2    \* score_to_level is tried this many thousandths beyond [0,1]
MaxClassifyWords == 3  \* longest clause text given to the classifier
MaxLlmWords == 2       \* longest clause text scored with LLM enhancement
MaxPieces == 4         \* a contract text given to the segmenter is up to this many pieces
MaxLlmSuggestions == 2 \* most suggestions in one completion
MaxClauses == 2        \* most clauses split_into_clauses finds in an uploaded document
MaxBatch == 2          \* most clauses in one upsert_clauses call on the store alone
MaxK == 3              \* largest k given to search_similar
MaxMinLength == 5      \* largest min_length given to the segmenter
MaxQuestionWords == 2  \* most words in a question put to the answer builder
MaxRetrieved == 2      \* most search results handed to the answer builder
MaxLiabilityWords == 3 \* most words in a clause text of the liability vocabulary
MaxMergeClauses == 3   \* most clauses in a list given to merge_short_clauses
MaxCalls == 2          \* most calls one caller makes for a cached handle

-----------------------------------------------------------------------------
(* Generic helpers.                                                        *)

Range(s) == {s[i] : i \in 1..Len(s)}

Min(a, b) == IF a < b THEN a ELSE b

\* F(v), with v evaluated once: 'x = v; return F(x)'
Bind(v, F(_)) == CHOOSE y \in {F(x) : x \in {v}} : TRUE

RECURSIVE SeqsUpTo(_, _)
\* every sequence over S of length at most n
SeqsUpTo(S, n) ==
    IF n = 0 THEN {<< >>}
    ELSE LET shorter == SeqsUpTo(S, n - 1)
         IN  shorter \cup {Append(s, x) : s \in {t \in shorter : Len(t) = n - 1}, x \in S}

\* the sum of a sequence of numbers
SumSeq(s) ==
    LET sum[i \in 0..Len(s)] == IF i = 0 THEN 0 ELSE sum[i - 1] + s[i]
    IN  sum[Len(s)]

\* str.lower() on one word of the vocabulary
LowerWord(w) ==
    CASE w = "Unlimited" -> "unlimited"
      [] w = "Salary" -> "salary"
      [] w = "Terminate" -> "terminate"
      [] w = "Obligations" -> "obligations"
      [] OTHER -> w

\* str.lower() on a text
Lower(text) == [i \in 1..Len(text) |-> LowerWord(text[i])]

\* A pattern is a sequence of word sets: it matches at position i when the
\* words at i, i+1, ... are in the respective sets (the \s+ of the source
\* is the blank between two words).
MatchesAt(pat, text, i) ==
    /\ i + Len(pat) - 1 <= Len(text)
    /\ \A j \in 1..Len(pat) : text[i + j - 1] \in pat[j]

\* re.search(pattern, text) is not None
Search(pat, text) == \E i \in 1..Len(text) : MatchesAt(pat, text, i)

\* len(re.findall(pattern, text))
CountMatches(pat, text) == Cardinality({i \in 1..Len(text) : MatchesAt(pat, text, i)})

-----------------------------------------------------------------------------
(* lexguard/models/clause.py                                               *)

\* ClauseType, in declaration order
ClauseTypes ==
    <<"termination", "liability", "payment", "confidentiality", "ip",
      "non_compete", "misc", "unsure">>

ClauseTypeSet == Range(ClauseTypes)

RiskLevels == {"low", "medium", "high"}

\* Clause(id=..., contract_id=..., index=..., text=..., clause_type=...):
\* risk_score and risk_level default to None
Clause(id, contract_id, idx, text, clause_type) ==
    [id |-> id, contract_id |-> contract_id, index |-> idx, text |-> text,
     clause_type |-> clause_type, risk_score |-> None, risk_level |-> None]

-----------------------------------------------------------------------------
(* lexguard/risk/scoring.py                                                *)

\* Words of the scorer's vocabulary that are numbers, and int() of them
NumberWords == {"5", "20", "45"}

IntOf(w) == CASE w = "5" -> 5 [] w = "20" -> 20 [] w = "45" -> 45

\* (\d+)\s*(?:unit...) : the number of the first match, or None
FirstNumber(units, text) ==
    LET hits == {i \in 1..Len(text) : MatchesAt(<<NumberWords, units>>, text, i)}
    IN  IF hits = {} THEN None
        ELSE Some(IntOf(text[CHOOSE i \in hits : \A j \in hits : i <= j]))

score_to_level_le(score) ==
    IF score <= 330 THEN "low" ELSE IF score <= 660 THEN "medium" ELSE "high"

score_to_level(score) ==
    IF score < 330 THEN "low" ELSE IF score < 660 THEN "medium" ELSE "high"

\* type_risk.get(clause.clause_type, 0.2)
type_risk(clause_type) ==
    CASE clause_type = "liability" -> 600
      [] clause_type = "non_compete" -> 500
      [] clause_type = "termination" -> 400
      [] clause_type = "ip" -> 400
      [] clause_type = "confidentiality" -> 300
      [] clause_type = "payment" -> 200
      [] clause_type = "misc" -> 100
      [] clause_type = "unsure" -> 200
      [] OTHER -> 200

Adj(on, delta, reason) == [on |-> on, delta |-> delta, reason |-> reason]

\* the liability branch with an indemnification check that knows the
\* verb only
LiabilityAdjustments_verb(t) ==
    << Adj(Search(<<{"unlimited"}>>, t), 200, "Contains 'unlimited' liability"),
       Adj(Search(<<{"indemnify"}>>, t), 150, "Includes indemnification obligations"),
       Adj(Search(<<{"hold"}, {"harmless"}>>, t), 100, "Contains hold harmless clause"),
       Adj(~Search(<<{"limited", "limitation"}>>, t), 100,
           "No liability limitation mentioned") >>

\* the liability branch: four independent checks
LiabilityAdjustments(t) ==
    << Adj(Search(<<{"unlimited"}>>, t), 200, "Contains 'unlimited' liability"),
       Adj(Search(<<{"indemnify", "indemnification"}>>, t), 150,
           "Includes indemnification obligations"),
       Adj(Search(<<{"hold"}, {"harmless"}>>, t), 100, "Contains hold harmless clause"),
       Adj(~Search(<<{"limited", "limitation"}>>, t), 100,
           "No liability limitation mentioned") >>

\* the termination branch: the notice tiers are an if/elif on the first match
TerminationAdjustments(t) ==
    LET notice_match == FirstNumber({"day", "days", "hour", "hours"}, t)
        days == IF notice_match = None THEN 0 ELSE notice_match[1]
    IN  << Adj(notice_match # None /\ days < 7, 250,
               "Very short notice period (" \o ToString(days) \o " days)"),
           Adj(notice_match # None /\ ~(days < 7) /\ days < 30, 100,
               "Short notice period (" \o ToString(days) \o " days)"),
           Adj(Search(<<{"immediate", "immediately"}>>, t), 200,
               "Allows immediate termination"),
           Adj(Search(<<{"without"}, {"cause"}>>, t), 150,
               "Allows termination without cause") >>

\* the non-compete branch: the unit is decided by '"year" in text_lower'
NonCompeteAdjustments(t) ==
    LET duration_match == FirstNumber({"year", "years", "month", "months"}, t)
        value == IF duration_match = None THEN 0 ELSE duration_match[1]
        months == IF \E i \in 1..Len(t) : t[i] \in {"year", "years", "yearly"}
                  THEN value * 12 ELSE value
    IN  << Adj(duration_match # None /\ months > 24, 300,
               "Very long non-compete duration (" \o ToString(months) \o " months)"),
           Adj(duration_match # None /\ ~(months > 24) /\ months > 12, 150,
               "Long non-compete duration (" \o ToString(months) \o " months)"),
           Adj(Search(<<{"global", "globally", "worldwide"}>>, t), 200,
               "Global or worldwide scope") >>

IpAdjustments(t) ==
    << Adj(Search(<<{"all"}, {"work", "works", "invention", "inventions",
                             "creation", "creations"}>>, t), 150,
           "Broad IP assignment clause"),
       Adj(~Search(<<{"pre-existing"}>>, t), 100, "No mention of pre-existing IP") >>

PaymentAdjustments(t) ==
    << Adj(Search(<<{"no"}, {"pay", "compensation", "salary"}>>, t), 400,
           "Unpaid or volunteer position"),
       Adj(Search(<<{"at"}, {"will"}>>, t), 100, "At-will payment terms") >>

\* the general red flags, checked for every type
GeneralAdjustments(t) ==
    << Adj(Search(<<{"irrevocable"}>>, t), 100, "Contains irrevocable terms"),
       Adj(Search(<<{"perpetual"}>>, t), 150, "Perpetual/indefinite terms"),
       Adj(Search(<<{"waive"}>>, t), 100, "Contains rights waiver") >>

\* a chain in which the liability checks are made for every type
AdjustmentsOf_anytype(ty, t) == LiabilityAdjustments(t) \o GeneralAdjustments(t)

\* the if/elif chain on clause.clause_type, then the general red flags
AdjustmentsOf(ty, t) ==
    LET own == IF ty = "liability" THEN LiabilityAdjustments(t)
               ELSE IF ty = "termination" THEN TerminationAdjustments(t)
               ELSE IF ty = "non_compete" THEN NonCompeteAdjustments(t)
               ELSE IF ty = "ip" THEN IpAdjustments(t)
               ELSE IF ty = "payment" THEN PaymentAdjustments(t)
               ELSE << >>
    IN  own \o GeneralAdjustments(t)

\* text_lower = clause.text.lower(), then the checks on it
Adjustments(clause) ==
    Bind(Lower(clause.text), LAMBDA t : AdjustmentsOf(clause.clause_type, t))

\* the adjustments whose condition held, in the order of the code
Fired(clause) == SelectSeq(Adjustments(clause), LAMBDA a : a.on)

\* base score plus the deltas of the fired adjustments
SumOf(clause_type, fired) ==
    type_risk(clause_type) + SumSeq([i \in 1..Len(fired) |-> fired[i].delta])

\* the reasons appended, or the default reason when none was
ReasonsOf(clause_type, fired) ==
    IF fired = << >> THEN <<"Standard " \o clause_type \o " clause">>
    ELSE [i \in 1..Len(fired) |-> fired[i].reason]

\* the score of a clause before 'score = min(score, 1.0)'
UncappedScore(clause) ==
    Bind(Fired(clause), LAMBDA fired : SumOf(clause.clause_type, fired))

\* _calculate_risk_score without its cap
calculate_risk_score_nocap(clause) ==
    Bind(Fired(clause), LAMBDA fired :
        [score |-> SumOf(clause.clause_type, fired),
         reasons |-> ReasonsOf(clause.clause_type, fired)])

\* _calculate_risk_score: (score, reasons)
calculate_risk_score(clause) ==
    Bind(Fired(clause), LAMBDA fired :
        [score |-> Min(SumOf(clause.clause_type, fired), 1000),
         reasons |-> ReasonsOf(clause.clause_type, fired)])

-----------------------------------------------------------------------------
(* lexguard/config.py, lexguard/llm: the completion capability             *)

LlmProviders == {"none", "ollama", "openai", "gemini"}

\* llm_provider, and whether the API key of that provider is configured
Settings == [llm_provider : LlmProviders, has_key : BOOLEAN]

\* get_llm_client(): OpenAIClient() and GeminiClient() raise ValueError
\* without their key; NoneClient and OllamaClient are always built
ClientBuilt(s) == s.llm_provider \in {"none", "ollama"} \/ s.has_key

\* A completion score the model lets the capability return (thousandths)
LlmScores == {0, 300, 1000, 1200, -200}

Structured(kind, score_kind, score, reasons_kind, reasons) ==
    [kind |-> kind, score_kind |-> score_kind, score |-> score,
     reasons_kind |-> reasons_kind, reasons |-> reasons]

\* What llm.chat_structured can give back to _calculate_risk_with_llm:
\*   kind "no_client": get_llm_client() raised
\*   kind "raises":    chat_structured raised (NoneClient always does)
\*   kind "not_dict":  parsed JSON that is no object (a list, a number)
\*   kind "dict":      a dict whose "score" is absent, a number or a text
\*                     float() rejects, and whose "reasons" is absent, a
\*                     list of strings, a scalar or a list of numbers
StructuredOutcomes(s) ==
    IF ~ClientBuilt(s) THEN {Structured("no_client", "absent", 0, "absent", << >>)}
    ELSE IF s.llm_provider = "none"
    THEN {Structured("raises", "absent", 0, "absent", << >>)}
    ELSE {Structured("raises", "absent", 0, "absent", << >>),
          Structured("not_dict", "absent", 0, "absent", << >>)}
         \cup {Structured("dict", "number", v, rk, IF rk = "absent" THEN << >> ELSE <<"llm reason">>) :
                 v \in LlmScores, rk \in {"absent", "strings", "scalar", "numbers"}}
         \cup {Structured("dict", sk, 0, "strings", <<"llm reason">>) : sk \in {"absent", "text"}}
         \cup {Structured("dict", "absent", 0, "absent", << >>)}

-----------------------------------------------------------------------------
(* lexguard/risk/scoring.py: calculate_clause_risk                         *)

Raised == [raised |-> TRUE]

\* _calculate_risk_with_llm: (score, reasons), or an exception
calculate_risk_with_llm(clause, llm) ==
    IF llm.kind \in {"no_client", "raises", "not_dict"} THEN Raised
    ELSE IF llm.score_kind = "text" THEN Raised           \* float("high")
    ELSE [raised |-> FALSE,
          score |-> IF llm.score_kind = "absent" THEN 500 ELSE llm.score,
          reasons_kind |-> IF llm.reasons_kind = "absent" THEN "strings" ELSE llm.reasons_kind,
          reasons |-> llm.reasons]

\* ClauseRisk(...): pydantic validates score (ge=0, le=1), level and that
\* every reason is a str
ClauseRiskValid(score, level, strings) ==
    /\ 0 <= score /\ score <= 1000
    /\ level \in RiskLevels
    /\ strings

\* the try block of calculate_clause_risk, after a completion 'got' that
\* did not raise: [score, reasons, strings]
Blend(rule, got) ==
    LET blended == (7 * got.score + 3 * rule.score) \div 10
    IN  IF got.reasons_kind = "scalar"          \* reasons.extend(5): TypeError, caught
        THEN [score |-> blended, reasons |-> rule.reasons, strings |-> TRUE]
        ELSE [score |-> blended, reasons |-> rule.reasons \o got.reasons,
              strings |-> got.reasons_kind = "strings"]

RuleOnly(rule) == [score |-> rule.score, reasons |-> rule.reasons, strings |-> TRUE]

\* the try block of calculate_clause_risk: (score, reasons) after it, and
\* whether every reason is a str
Enhance(clause, rule, llm) ==
    Bind(calculate_risk_with_llm(clause, llm), LAMBDA got :
        IF got.raised THEN RuleOnly(rule) ELSE Blend(rule, got))

\* lines 37-50 without the assignment to clause.risk_level
Assess_nolevel(clause, e, level) ==
    IF ClauseRiskValid(e.score, level, e.strings)
    THEN [raised |-> FALSE,
          clause |-> [clause EXCEPT !.risk_score = Some(e.score)],
          risk |-> [clause_id |-> clause.id, score |-> e.score, level |-> level,
                    reasons |-> e.reasons, recommendations |-> << >>]]
    ELSE [raised |-> TRUE,
          clause |-> [clause EXCEPT !.risk_score = Some(e.score)],
          risk |-> None]

\* lines 37-50: level, the clause's fields, the ClauseRisk or the exception
\* of its constructor
Assess(clause, e, level) ==
    IF ClauseRiskValid(e.score, level, e.strings)
    THEN [raised |-> FALSE,
          clause |-> [clause EXCEPT !.risk_score = Some(e.score), !.risk_level = Some(level)],
          risk |-> [clause_id |-> clause.id, score |-> e.score, level |-> level,
                    reasons |-> e.reasons, recommendations |-> << >>]]
    ELSE [raised |-> TRUE,
          clause |-> [clause EXCEPT !.risk_score = Some(e.score), !.risk_level = Some(level)],
          risk |-> None]

\* calculate_clause_risk(clause, use_llm): the clause as mutated, and the
\* ClauseRisk returned or the exception raised
calculate_clause_risk(clause, use_llm, llm) ==
    Bind(calculate_risk_score(clause), LAMBDA rule :
        Bind(IF use_llm THEN Enhance(clause, rule, llm) ELSE RuleOnly(rule), LAMBDA e :
            Bind(score_to_level(e.score), LAMBDA level : Assess(clause, e, level))))

-----------------------------------------------------------------------------
(* lexguard/nlp/clause_classifier.py                                       *)

\* CLAUSE_PATTERNS, in declaration order; a word with a hyphen is listed
\* under every pattern that matches inside it (\bcompete\b matches in
\* "non-compete").  MISC and UNSURE have no patterns.
CLAUSE_PATTERNS(clause_type) ==
    CASE clause_type = "termination" ->
           << <<{"termination"}>>, <<{"terminate"}>>, <<{"expire", "expiration"}>>,
              <<{"end", "ending"}, {"of", "this"}, {"agreement"}>>,
              <<{"notice"}, {"of", "to"}, {"terminate"}>>, <<{"cancellation"}>> >>
      [] clause_type = "liability" ->
           << <<{"liability"}>>, <<{"liable"}>>, <<{"indemnify", "indemnification"}>>,
              <<{"hold"}, {"harmless"}>>, <<{"damages"}>>, <<{"losses"}>>,
              <<{"limitation"}, {"of"}, {"liability"}>>, <<{"exculpation"}>> >>
      [] clause_type = "payment" ->
           << <<{"payment"}>>, <<{"pay"}>>, <<{"compensation"}>>, <<{"fee", "fees"}>>,
              <<{"salary"}>>, <<{"wage", "wages"}>>, <<{"remuneration"}>>, <<{"invoice"}>>,
              <<{"usd$100"}>>, <<{"amount"}, {"of", "due"}>> >>
      [] clause_type = "confidentiality" ->
           << <<{"confidential", "confidentiality"}>>, <<{"non-disclosure"}>>,
              <<{"proprietary"}, {"information"}>>, <<{"trade"}, {"secret", "secrets"}>>,
              <<{"disclosure", "non-disclosure"}>>, <<{"secrecy"}>> >>
      [] clause_type = "ip" ->
           << <<{"intellectual"}, {"property"}>>, <<{"copyright", "copyrights"}>>,
              <<{"patent", "patents"}>>, <<{"trademark", "trademarks"}>>,
              <<{"ownership"}, {"of"}, {"work"}>>, <<{"invention", "inventions"}>>,
              <<{"work"}, {"product"}>> >>
      [] clause_type = "non_compete" ->
           << <<{"non-compete"}>>, <<{"non"}, {"compete"}>>, <<{"compete", "non-compete"}>>,
              <<{"restrictive"}, {"covenant"}>>, <<{"non-solicitation"}>>,
              <<{"solicitation", "non-solicitation"}>> >>
      [] OTHER -> << >>

\* scores[clause_type] after the two loops: the total number of matches of
\* the type's patterns in the lower-cased text
TypeScore(clause_type, text_lower) ==
    LET patterns == CLAUSE_PATTERNS(clause_type)
    IN  SumSeq([p \in 1..Len(patterns) |-> CountMatches(patterns[p], text_lower)])

\* the scores dict, in the iteration order of ClauseType
Scores(text) ==
    Bind(Lower(text), LAMBDA text_lower :
        [i \in 1..Len(ClauseTypes) |-> TypeScore(ClauseTypes[i], text_lower)])

MaxOf(scores) == CHOOSE m \in Range(scores) : \A v \in Range(scores) : v <= m

\* max(scores.items(), key=...) taking the last of the equal maxima
BestLast(scores) ==
    Bind(MaxOf(scores), LAMBDA max_score :
        IF max_score = 0 THEN "misc"
        ELSE ClauseTypes[CHOOSE i \in 1..Len(scores) :
                 scores[i] = max_score /\ \A j \in (i + 1)..Len(scores) : scores[j] < max_score])

\* a classifier that answers UNSURE when no pattern matches
Best_unsure(scores) ==
    Bind(MaxOf(scores), LAMBDA max_score :
        IF max_score = 0 THEN "unsure"
        ELSE ClauseTypes[CHOOSE i \in 1..Len(scores) :
                 scores[i] = max_score /\ \A j \in 1..(i - 1) : scores[j] < max_score])

\* max_score == 0 -> MISC; else max(scores.items(), key=...): the first
\* item of the dict that has the highest score
Best(scores) ==
    Bind(MaxOf(scores), LAMBDA max_score :
        IF max_score = 0 THEN "misc"
        ELSE ClauseTypes[CHOOSE i \in 1..Len(scores) :
                 scores[i] = max_score /\ \A j \in 1..(i - 1) : scores[j] < max_score])

\* _classify_with_rules
classify_with_rules(text) == Bind(Scores(text), LAMBDA scores : Best(scores))

\* What llm.chat can give back to _classify_with_llm:
\*   kind "no_client": get_llm_client() raised
\*   kind "raises":    chat raised (NoneClient always does)
\*   kind "no_text":   a value that is no str (OpenAI's content may be None)
\*   kind "text":      the response, a sequence of words
Chat(kind, text) == [kind |-> kind, text |-> text]

ResponseWords == {"Liability", "non_compete", "relationship", "other"}

ChatOutcomes(s) ==
    IF ~ClientBuilt(s) THEN {Chat("no_client", << >>)}
    ELSE IF s.llm_provider = "none" THEN {Chat("raises", << >>)}
    ELSE {Chat("raises", << >>), Chat("no_text", << >>)}
         \cup {Chat("text", <<w>>) : w \in ResponseWords}

\* 'value in response_lower' for one word of the response: the type values
\* that occur in the word ("ip" occurs in "relationship")
ValuesIn(w) ==
    CASE w = "liability" -> {"liability"}
      [] w = "non_compete" -> {"non_compete"}
      [] w = "relationship" -> {"ip"}
      [] OTHER -> {}

\* the for loop over ClauseType: the first value found in the response
ParseType(response_lower) ==
    LET found == {i \in 1..Len(ClauseTypes) :
                     \E k \in 1..Len(response_lower) : ClauseTypes[i] \in ValuesIn(response_lower[k])}
    IN  IF found = {} THEN "misc"
        ELSE ClauseTypes[CHOOSE i \in found : \A j \in found : i <= j]

\* ChatLower(w): LowerWord for the words of a response
ChatLowerWord(w) == IF w = "Liability" THEN "liability" ELSE w

\* _classify_with_llm: logs the exception and raises it again
classify_with_llm(text, llm) ==
    IF llm.kind # "text" THEN Raised
    ELSE [raised |-> FALSE,
          clause_type |-> ParseType([k \in 1..Len(llm.text) |-> ChatLowerWord(llm.text[k])])]

NotCalled == Chat("not_called", << >>)

\* stage 2 of classify_clause without its try/except
Refine_notry(rule, text, llm) ==
    Bind(classify_with_llm(text, llm), LAMBDA got :
        IF got.raised
        THEN [raised |-> TRUE, clause_type |-> rule, llm_called |-> TRUE, llm |-> llm]
        ELSE [raised |-> FALSE, clause_type |-> got.clause_type, llm_called |-> TRUE,
              llm |-> llm])

\* stage 2 of classify_clause: try _classify_with_llm, keep the rule-based
\* result when it raises
Refine(rule, text, llm) ==
    Bind(classify_with_llm(text, llm), LAMBDA got :
        [raised |-> FALSE,
         clause_type |-> IF got.raised THEN rule ELSE got.clause_type,
         llm_called |-> TRUE, llm |-> llm])

\* classify_clause(text, use_llm); llm_called records whether
\* _classify_with_llm was entered, llm what the capability did then
classify_clause(text, use_llm, llm) ==
    Bind(classify_with_rules(text), LAMBDA clause_type :
        IF use_llm /\ clause_type \in {"unsure", "misc"}
        THEN Refine(clause_type, text, llm)
        ELSE [raised |-> FALSE, clause_type |-> clause_type, llm_called |-> FALSE,
              llm |-> NotCalled])

-----------------------------------------------------------------------------
(* lexguard/nlp/chunker.py: a text is a sequence of characters             *)

Digits == {"0", "1", "2"}
LowerLetters == {"a", "b", "i", "v", "x"}
UpperLetters == {"A", "B", "I", "V", "X"}
Letters == LowerLetters \cup UpperLetters
Roman == {"i", "v", "x", "I", "V", "X"}

\* \s
IsSpace(c) == c \in {" ", "\n", "\t"}

AllIn(s, S) == \A i \in 1..Len(s) : s[i] \in S

\* the elements of a set of numbers, ascending
Sorted(S) == [k \in 1..Cardinality(S) |-> CHOOSE x \in S : Cardinality({y \in S : y < x}) = k - 1]

\* str.strip()
strip(s) ==
    LET solid == {i \in 1..Len(s) : ~IsSpace(s[i])}
    IN  IF solid = {} THEN << >>
        ELSE SubSeq(s, CHOOSE i \in solid : \A j \in solid : i <= j,
                       CHOOSE i \in solid : \A j \in solid : j <= i)

\* str.isupper(): a cased character exists and none is lower-case
isupper(s) ==
    /\ \E i \in 1..Len(s) : s[i] \in UpperLetters
    /\ \A i \in 1..Len(s) : s[i] \notin LowerLetters

\* \d+\.(?:\d+\.?)? matching the whole of tok
IsDecimalMarker(tok) ==
    \E k \in 2..Len(tok) :
        /\ tok[k] = "." /\ AllIn(SubSeq(tok, 1, k - 1), Digits)
        /\ LET rest == SubSeq(tok, k + 1, Len(tok))
           IN  \/ rest = << >>
               \/ AllIn(rest, Digits)
               \/ /\ Len(rest) >= 2 /\ rest[Len(rest)] = "."
                  /\ AllIn(SubSeq(rest, 1, Len(rest) - 1), Digits)

\* \d+\.(?:\d+\.?)?|[a-z]\)|[ivx]+\)|\([ivx]+\)|\([a-z]\) with IGNORECASE,
\* matching the whole of tok
IsMarker(tok) ==
    \/ IsDecimalMarker(tok)
    \/ Len(tok) = 2 /\ tok[1] \in Letters /\ tok[2] = ")"
    \/ Len(tok) >= 2 /\ tok[Len(tok)] = ")" /\ AllIn(SubSeq(tok, 1, Len(tok) - 1), Roman)
    \/ /\ Len(tok) >= 3 /\ tok[1] = "(" /\ tok[Len(tok)] = ")"
       /\ AllIn(SubSeq(tok, 2, Len(tok) - 1), Roman)
    \/ Len(tok) = 3 /\ tok[1] = "(" /\ tok[2] \in Letters /\ tok[3] = ")"

\* the least index >= p whose character satisfies Stop, Len(t) + 1 if none
FirstFrom(t, p, Stop(_)) ==
    LET hits == {i \in p..Len(t) : Stop(t[i])}
    IN  IF hits = {} THEN Len(t) + 1 ELSE CHOOSE i \in hits : \A j \in hits : i <= j

\* The section pattern tried at position p: (?:^|\n) then the marker then
\* \s+ (greedy).  The marker holds no blank and a blank must follow it, so
\* it is the whole run of non-blank characters.  The index after the match,
\* or 0 when there is no match at p.
MatchEnd(t, p) ==
    LET body == IF t[p] = "\n" THEN p + 1 ELSE p
        anchored == t[p] = "\n" \/ p = 1 \/ t[p - 1] = "\n"
        q == FirstFrom(t, body, IsSpace)
    IN  IF anchored /\ body < q /\ q <= Len(t) /\ IsMarker(SubSeq(t, body, q - 1))
        THEN FirstFrom(t, q, LAMBDA c : ~IsSpace(c))
        ELSE 0

\* positions = [m.start() for m in pattern.finditer(text)]
MatchStarts(t) ==
    LET scan[p \in 1..(Len(t) + 1)] ==
            IF p > Len(t) THEN << >>
            ELSE Bind(MatchEnd(t, p), LAMBDA e :
                     IF e = 0 THEN scan[p + 1] ELSE <<p>> \o scan[e])
    IN  scan[1]

\* _split_by_numbered_sections
split_by_numbered_sections(text) ==
    Bind(MatchStarts(text), LAMBDA positions :
        IF positions = << >> THEN <<text>>
        ELSE [i \in 1..Len(positions) |->
                 SubSeq(text, positions[i],
                        IF i + 1 <= Len(positions) THEN positions[i + 1] - 1 ELSE Len(text))])

\* re.split(r"\n{2,}", text): a run of two or more line breaks separates
InBreak(t, i) ==
    /\ t[i] = "\n"
    /\ \/ i > 1 /\ t[i - 1] = "\n"
       \/ i < Len(t) /\ t[i + 1] = "\n"

\* the pieces of re.split(r"\n{2,}", text) that hold a character, in order
BreakPieces(text) ==
    LET starts == {i \in 1..Len(text) :
                      ~InBreak(text, i) /\ (i = 1 \/ InBreak(text, i - 1))}
        ends == {j \in 1..Len(text) :
                      ~InBreak(text, j) /\ (j = Len(text) \/ InBreak(text, j + 1))}
    IN  Bind(<<Sorted(starts), Sorted(ends)>>, LAMBDA se :
            [k \in 1..Len(se[1]) |-> SubSeq(text, se[1][k], se[2][k])])

\* the members of s that satisfy Keep, in order
SelectIdx(s, keep) ==
    Bind(Sorted(keep), LAMBDA ix : [k \in 1..Len(ix) |-> s[ix[k]]])

\* _split_by_paragraphs: [p.strip() for p in paragraphs if p.strip()]
split_by_paragraphs(text) ==
    Bind(BreakPieces(text), LAMBDA ps :
        Bind([k \in 1..Len(ps) |-> strip(ps[k])], LAMBDA st :
            SelectIdx(st, {k \in 1..Len(st) : st[k] # << >>})))

\* _is_likely_header
is_likely_header(text) ==
    Bind(strip(text), LAMBDA t :
        \/ Len(t) < 100 /\ isupper(t)
        \/ Len(t) < 80 /\ (\A i \in 1..Len(t) : t[i] # "\n")
                       /\ (t = << >> \/ t[Len(t)] # "."))

\* the cleaning loop without its length test
Cleaned_nolen(clauses, min_length) ==
    Bind([k \in 1..Len(clauses) |-> strip(clauses[k])], LAMBDA st :
        SelectIdx(st, {k \in 1..Len(st) : ~is_likely_header(st[k])}))

\* the cleaning loop of split_into_clauses over the raw pieces
Cleaned(clauses, min_length) ==
    Bind([k \in 1..Len(clauses) |-> strip(clauses[k])], LAMBDA st :
        SelectIdx(st, {k \in 1..Len(st) :
                          /\ ~(Len(st[k]) < min_length)
                          /\ ~is_likely_header(st[k])}))

\* the loop of merge_short_clauses over a non-empty list: merged and
\* current after the last clause
MergeLoop(clauses, min_length) ==
    LET step[i \in 1..Len(clauses)] ==
            IF i = 1 THEN [merged |-> << >>, current |-> clauses[1]]
            ELSE IF Len(step[i - 1].current) < min_length
            THEN [merged |-> step[i - 1].merged,
                  current |-> step[i - 1].current \o <<" ">> \o clauses[i]]
            ELSE [merged |-> Append(step[i - 1].merged, step[i - 1].current),
                  current |-> clauses[i]]
    IN  step[Len(clauses)]

\* merge_short_clauses without the append after the loop
merge_short_clauses_nolast(clauses, min_length) ==
    IF clauses = << >> THEN << >>
    ELSE MergeLoop(clauses, min_length).merged

\* merge_short_clauses
merge_short_clauses(clauses, min_length) ==
    IF clauses = << >> THEN << >>
    ELSE Bind(MergeLoop(clauses, min_length), LAMBDA last :
            Append(last.merged, last.current))

\* split_into_clauses; numbered tells which of the two splits was kept
split_into_clauses(text, min_length) ==
    Bind(split_by_numbered_sections(text), LAMBDA sections :
        IF Len(sections) <= 1
        THEN [numbered |-> FALSE,
              clauses |-> Cleaned(split_by_paragraphs(text), min_length)]
        ELSE [numbered |-> TRUE, clauses |-> Cleaned(sections, min_length)])

-----------------------------------------------------------------------------
(* lexguard/nlp/vector_store.py: the collection is a set of entries, one   *)
(* per id.  The embedding backend and the collection's nearest-neighbour   *)
(* order are outside the repository: a search may rank the entries that    *)
(* pass its filter in any order, and embedding may fail.                   *)

\* lines 57-67: the id, document and metadata upsert_clauses stores
Entry(clause) ==
    [id |-> clause.id, text |-> clause.text,
     metadata |-> [contract_id |-> clause.contract_id,
                   clause_type |-> clause.clause_type,
                   index |-> clause.index,
                   risk_level |-> IF clause.risk_level = None THEN "unknown"
                                  ELSE clause.risk_level[1]]]

\* a collection that adds the entries and keeps the stored ones
ChromaAdd(ix, entries) == ix \cup Range(entries)

\* collection.upsert: an entry replaces the stored entry of the same id
ChromaUpsert(ix, entries) ==
    {e \in ix : \A i \in 1..Len(entries) : entries[i].id # e.id} \cup Range(entries)

\* a filter that lets every entry through
Where_all(ix, contract_id) == ix

\* where={"contract_id": contract_id}
Where(ix, contract_id) == {e \in ix : e.metadata.contract_id = contract_id}

\* collection.query(n_results=n) over the entries that pass the filter:
\* every ranking of n of them, or of all when there are fewer
ChromaQuery(passing, n) ==
    {r \in [1..Min(n, Cardinality(passing)) -> passing] :
        \A i, j \in DOMAIN r : i # j => r[i] # r[j]}

\* upsert_clauses: the collection afterwards (contract_id is only logged)
upsert_clauses(ix, contract_id, clauses) ==
    IF clauses = << >> THEN ix
    ELSE ChromaUpsert(ix, [i \in 1..Len(clauses) |-> Entry(clauses[i])])

\* search_similar: the result lists the collection's ranking lets it return
search_similar(ix, contract_id, k) == ChromaQuery(Where(ix, contract_id), k)

\* delete_contract_clauses: the collection afterwards
delete_contract_clauses(ix, contract_id) == ix \ Where(ix, contract_id)

\* get_clause_by_id
get_clause_by_id(ix, clause_id) ==
    IF \E e \in ix : e.id = clause_id
    THEN Some(CHOOSE e \in ix : e.id = clause_id)
    ELSE None

-----------------------------------------------------------------------------
(* lexguard/risk/negotiation.py                                            *)

\* _get_rule_based_suggestions
get_rule_based_suggestions(clause) ==
    CASE clause.clause_type = "liability" ->
           << "Request a cap on total liability (e.g., contract value or specific amount)",
              "Exclude indirect, consequential, or punitive damages",
              "Add mutual indemnification provisions",
              "Clarify what events trigger indemnification",
              "Request right to defend claims with own counsel" >>
      [] clause.clause_type = "termination" ->
           << "Negotiate longer notice period (30-90 days)",
              "Request termination only 'for cause' with defined reasons",
              "Add severance or termination payment provisions",
              "Include dispute resolution before termination",
              "Clarify obligations upon termination" >>
      [] clause.clause_type = "non_compete" ->
           << "Reduce duration to 6-12 months maximum",
              "Narrow geographic scope to specific regions",
              "Define 'competing business' more narrowly",
              "Add exceptions for existing commitments",
              "Include compensation for non-compete period" >>
      [] clause.clause_type = "ip" ->
           << "Exclude pre-existing intellectual property",
              "Limit assignment to work created during employment",
              "Add carve-out for personal projects",
              "Clarify ownership of derivative works",
              "Request license-back for your contributions" >>
      [] clause.clause_type = "confidentiality" ->
           << "Define 'confidential information' more clearly",
              "Add exceptions for public information",
              "Limit duration of confidentiality obligations",
              "Exclude information already known",
              "Allow disclosure when legally required" >>
      [] clause.clause_type = "payment" ->
           << "Specify exact payment amounts and schedule",
              "Add late payment penalties or interest",
              "Include expense reimbursement terms",
              "Clarify payment method and currency",
              "Add cost-of-living or performance adjustments" >>
      [] OTHER ->
           << "Request clearer definitions of key terms",
              "Add specific performance metrics or criteria",
              "Include dispute resolution procedures" >>

\* suggestions a completion is let to give: one of the rule-based ones in
\* capitals, one of them as it is, and a new one in two spellings
LlmSuggestionPool ==
    {"REQUEST CLEARER DEFINITIONS OF KEY TERMS",
     "Add mutual indemnification provisions",
     "Ask for arbitration",
     "ask for arbitration"}

\* str.lower() on the suggestions that occur
StrLower(s) ==
    CASE s = "Request a cap on total liability (e.g., contract value or specific amount)" ->
             "request a cap on total liability (e.g., contract value or specific amount)"
      [] s = "Exclude indirect, consequential, or punitive damages" ->
             "exclude indirect, consequential, or punitive damages"
      [] s = "Add mutual indemnification provisions" ->
             "add mutual indemnification provisions"
      [] s = "Clarify what events trigger indemnification" ->
             "clarify what events trigger indemnification"
      [] s = "Request right to defend claims with own counsel" ->
             "request right to defend claims with own counsel"
      [] s = "Negotiate longer notice period (30-90 days)" ->
             "negotiate longer notice period (30-90 days)"
      [] s = "Request termination only 'for cause' with defined reasons" ->
             "request termination only 'for cause' with defined reasons"
      [] s = "Add severance or termination payment provisions" ->
             "add severance or termination payment provisions"
      [] s = "Include dispute resolution before termination" ->
             "include dispute resolution before termination"
      [] s = "Clarify obligations upon termination" ->
             "clarify obligations upon termination"
      [] s = "Reduce duration to 6-12 months maximum" ->
             "reduce duration to 6-12 months maximum"
      [] s = "Narrow geographic scope to specific regions" ->
             "narrow geographic scope to specific regions"
      [] s = "Define 'competing business' more narrowly" ->
             "define 'competing business' more narrowly"
      [] s = "Add exceptions for existing commitments" ->
             "add exceptions for existing commitments"
      [] s = "Include compensation for non-compete period" ->
             "include compensation for non-compete period"
      [] s = "Exclude pre-existing intellectual property" ->
             "exclude pre-existing intellectual property"
      [] s = "Limit assignment to work created during employment" ->
             "limit assignment to work created during employment"
      [] s = "Add carve-out for personal projects" ->
             "add carve-out for personal projects"
      [] s = "Clarify ownership of derivative works" ->
             "clarify ownership of derivative works"
      [] s = "Request license-back for your contributions" ->
             "request license-back for your contributions"
      [] s = "Define 'confidential information' more clearly" ->
             "define 'confidential information' more clearly"
      [] s = "Add exceptions for public information" ->
             "add exceptions for public information"
      [] s = "Limit duration of confidentiality obligations" ->
             "limit duration of confidentiality obligations"
      [] s = "Exclude information already known" ->
             "exclude information already known"
      [] s = "Allow disclosure when legally required" ->
             "allow disclosure when legally required"
      [] s = "Specify exact payment amounts and schedule" ->
             "specify exact payment amounts and schedule"
      [] s = "Add late payment penalties or interest" ->
             "add late payment penalties or interest"
      [] s = "Include expense reimbursement terms" ->
             "include expense reimbursement terms"
      [] s = "Clarify payment method and currency" ->
             "clarify payment method and currency"
      [] s = "Add cost-of-living or performance adjustments" ->
             "add cost-of-living or performance adjustments"
      [] s = "Request clearer definitions of key terms" ->
             "request clearer definitions of key terms"
      [] s = "Add specific performance metrics or criteria" ->
             "add specific performance metrics or criteria"
      [] s = "Include dispute resolution procedures" ->
             "include dispute resolution procedures"
      [] s = "REQUEST CLEARER DEFINITIONS OF KEY TERMS" ->
             "request clearer definitions of key terms"
      [] s = "Ask for arbitration" ->
             "ask for arbitration"
      [] s = "A" ->
             "a"
      [] OTHER -> s

Suggested(kind, items_kind, items) ==
    [kind |-> kind, items_kind |-> items_kind, items |-> items]

\* What llm.chat_structured can give back to _get_llm_suggestions:
\*   kind "no_client": get_llm_client() raised
\*   kind "raises":    chat_structured raised
\*   kind "other":     a dict without "suggestions", or a scalar
\*   kind "dict":      a dict whose "suggestions" is items
\*   kind "list":      the list items
\* items_kind tells what items is: a list of strings, a list of numbers,
\* a scalar (None, a number), or a text, whose characters items holds
SuggestionOutcomes(s) ==
    IF ~ClientBuilt(s) THEN {Suggested("no_client", "strings", << >>)}
    ELSE IF s.llm_provider = "none" THEN {Suggested("raises", "strings", << >>)}
    ELSE {Suggested("raises", "strings", << >>), Suggested("other", "strings", << >>),
          Suggested("dict", "scalar", << >>), Suggested("dict", "text", <<"a", "A">>)}
         \cup {Suggested(k, "strings", items) :
                 k \in {"dict", "list"}, items \in SeqsUpTo(LlmSuggestionPool, MaxLlmSuggestions)}
         \cup {Suggested(k, "numbers", <<"1">>) : k \in {"dict", "list"}}

\* _get_llm_suggestions: the value returned, or the exception of
\* get_llm_client(), which is called before the function's own try
get_llm_suggestions(llm) ==
    IF llm.kind = "no_client" THEN [raised |-> TRUE, items_kind |-> "strings", items |-> << >>]
    ELSE IF llm.kind \in {"dict", "list"}
    THEN [raised |-> FALSE, items_kind |-> llm.items_kind, items |-> llm.items]
    ELSE [raised |-> FALSE, items_kind |-> "strings", items |-> << >>]

\* lines 23-31: the list after the try, and whether all its members are str
Extended(clause, use_llm, llm) ==
    Bind(get_rule_based_suggestions(clause), LAMBDA suggestions :
        IF use_llm /\ clause.risk_level \in {Some("medium"), Some("high")}
        THEN Bind(get_llm_suggestions(llm), LAMBDA got :
                IF got.raised \/ got.items_kind = "scalar"    \* extend(None): TypeError, caught
                THEN [suggestions |-> suggestions, strings |-> TRUE]
                ELSE [suggestions |-> suggestions \o got.items,
                      strings |-> got.items_kind # "numbers" \/ got.items = << >>])
        ELSE [suggestions |-> suggestions, strings |-> TRUE])

\* the loop of lines 34-39 comparing the strings as they are
Unique_exact(suggestions) ==
    SelectIdx(suggestions, {i \in 1..Len(suggestions) :
                               \A j \in 1..(i - 1) : suggestions[j] # suggestions[i]})

\* lines 34-39: the first occurrence of each lower-cased string
Unique(suggestions) ==
    SelectIdx(suggestions, {i \in 1..Len(suggestions) :
                               \A j \in 1..(i - 1) :
                                   StrLower(suggestions[j]) # StrLower(suggestions[i])})

\* suggest_negotiation_points(clause, use_llm): s.lower() raises on a
\* member that is no str, outside the try
suggest_negotiation_points(clause, use_llm, llm) ==
    Bind(Extended(clause, use_llm, llm), LAMBDA e :
        IF ~e.strings THEN [raised |-> TRUE, value |-> << >>]
        ELSE Bind(Unique(e.suggestions), LAMBDA unique_suggestions :
                [raised |-> FALSE,
                 value |-> SubSeq(unique_suggestions, 1, Min(5, Len(unique_suggestions)))]))

-----------------------------------------------------------------------------
(* Rule-only scoring of one clause: calculate_clause_risk(clause, False)   *)

RiskWords ==
    {"unlimited", "Unlimited", "indemnify", "hold", "harmless", "limited",
     "5", "20", "45", "days", "months", "years", "immediately", "without", "cause",
     "global", "all", "inventions", "pre-existing", "no", "salary", "at", "will",
     "irrevocable", "perpetual", "waive"}

RiskTexts == SeqsUpTo(RiskWords, MaxRiskWords)

NoSettings == [llm_provider |-> "none", has_key |-> FALSE]

NoLlm == Structured("raises", "absent", 0, "absent", << >>)

InitRisk ==
    /\ settings = NoSettings
    /\ contracts = Idle /\ index = Idle /\ response = Idle
    /\ args \in {[clause |-> Clause("c_clause_0", "c", 0, text, ty), use_llm |-> FALSE] :
                    text \in RiskTexts, ty \in ClauseTypeSet}
    /\ result = Pending

CallCalculateClauseRisk ==
    /\ result = Pending
    /\ "clause" \in DOMAIN args
    /\ \E llm \in StructuredOutcomes(settings) :
          result' = [llm |-> llm] @@ calculate_clause_risk(args.clause, args.use_llm, llm)
    /\ UNCHANGED <<settings, contracts, index, response, args>>

NextRisk == CallCalculateClauseRisk

SpecRisk == InitRisk /\ [][NextRisk]_vars

\* calculate_clause_risk on the texts of the liability vocabulary
LiabilityWords ==
    {"unlimited", "Unlimited", "indemnify", "indemnification", "limited", "hold",
     "harmless", "waive", "liability"}

LiabilityTexts == SeqsUpTo(LiabilityWords, MaxLiabilityWords)

InitLiability ==
    /\ settings = NoSettings
    /\ contracts = Idle /\ index = Idle /\ response = Idle
    /\ args \in {[clause |-> Clause("c_clause_0", "c", 0, text, ty), use_llm |-> FALSE] :
                    text \in LiabilityTexts, ty \in ClauseTypeSet}
    /\ result = Pending

NextLiability == CallCalculateClauseRisk

SpecLiability == InitLiability /\ [][NextLiability]_vars

-----------------------------------------------------------------------------
(* calculate_clause_risk(clause, use_llm) under every LLM configuration    *)

\* the settings that differ for get_llm_client
LlmSettings == {s \in Settings : s.llm_provider \in {"none", "ollama"} => ~s.has_key}

LlmRiskWords == {"unlimited", "indemnify", "waive"}

LlmRiskTexts == SeqsUpTo(LlmRiskWords, MaxLlmWords)

InitRiskLlm ==
    /\ settings \in LlmSettings
    /\ contracts = Idle /\ index = Idle /\ response = Idle
    /\ args \in {[clause |-> Clause("c_clause_0", "c", 0, text, ty), use_llm |-> u] :
                    text \in LlmRiskTexts, ty \in ClauseTypeSet, u \in BOOLEAN}
    /\ result = Pending

SpecRiskLlm == InitRiskLlm /\ [][NextRisk]_vars

-----------------------------------------------------------------------------
(* score_to_level on its own                                               *)

InitLevel ==
    /\ settings = NoSettings
    /\ contracts = Idle /\ index = Idle /\ response = Idle
    /\ args \in {[score |-> s] : s \in (0 - MaxScoreExcess)..(1000 + MaxScoreExcess)}
    /\ result = Pending

CallScoreToLevel ==
    /\ result = Pending
    /\ "score" \in DOMAIN args
    /\ result' = [level |-> score_to_level(args.score)]
    /\ UNCHANGED <<settings, contracts, index, response, args>>

NextLevel == CallScoreToLevel

SpecLevel == InitLevel /\ [][NextLevel]_vars

-----------------------------------------------------------------------------
(* split_into_clauses on one contract text                                  *)

ChunkPieces ==
    {<<"1", ".", " ", "a", ".">>, <<"b", ")", " ">>, <<".">>, <<"\n">>, <<" ">>, <<"A", "B">>}

\* the pieces of ps joined into one text
Concat(ps) ==
    LET cat[i \in 0..Len(ps)] == IF i = 0 THEN << >> ELSE cat[i - 1] \o ps[i]
    IN  cat[Len(ps)]

ChunkTexts == {Concat(ps) : ps \in SeqsUpTo(ChunkPieces, MaxPieces)}

InitChunk ==
    /\ settings = NoSettings
    /\ contracts = Idle /\ index = Idle /\ response = Idle
    /\ args \in {[contract_text |-> t, min_length |-> m] :
                    t \in ChunkTexts, m \in 0..MaxMinLength}
    /\ result = Pending

CallSplitIntoClauses ==
    /\ result = Pending
    /\ "contract_text" \in DOMAIN args
    /\ result' = split_into_clauses(args.contract_text, args.min_length)
    /\ UNCHANGED <<settings, contracts, index, response, args>>

NextChunk == CallSplitIntoClauses

SpecChunk == InitChunk /\ [][NextChunk]_vars

\* merge_short_clauses on one list of clauses
MergeUnits ==
    {<< >>, <<"a">>, <<" ">>, <<"a", "b", ".">>, <<"a", "b", "c", "d", ".">>}

MergeLists == SeqsUpTo(MergeUnits, MaxMergeClauses)

\* " ".join(units)
JoinSpace(units) ==
    LET cat[i \in 0..Len(units)] ==
            IF i = 0 THEN << >>
            ELSE IF i = 1 THEN units[1]
            ELSE cat[i - 1] \o <<" ">> \o units[i]
    IN  cat[Len(units)]

InitMerge ==
    /\ settings = NoSettings
    /\ contracts = Idle /\ index = Idle /\ response = Idle
    /\ args \in {[clauses |-> c, min_length |-> m] :
                    c \in MergeLists, m \in 0..MaxMinLength}
    /\ result = Pending

CallMergeShortClauses ==
    /\ result = Pending
    /\ result' = [value |-> merge_short_clauses(args.clauses, args.min_length)]
    /\ UNCHANGED <<settings, contracts, index, response, args>>

NextMerge == CallMergeShortClauses

SpecMerge == InitMerge /\ [][NextMerge]_vars

-----------------------------------------------------------------------------
(* The vector store on its own                                              *)

ContractIds == {"c1", "c2"}

StoreClauseIds == {"c1_clause_0", "c2_clause_0"}

StoreTexts == {<<"pay">>, <<"terminate">>}

Queries == {<<"payment">>, <<"risks">>}

StoreClauses ==
    {Clause(id, c, 0, text, "misc") : id \in StoreClauseIds, c \in ContractIds, text \in StoreTexts}

\* lists of clauses with distinct ids
Batches ==
    {b \in SeqsUpTo(StoreClauses, MaxBatch) :
        \A i, j \in DOMAIN b : i # j => b[i].id # b[j].id}

InitIndex ==
    /\ settings = NoSettings
    /\ contracts = Idle /\ response = Idle
    /\ index = {}
    /\ args = [op |-> "VectorStore"]
    /\ result = Idle

\* VectorStore.upsert_clauses; embeds: get_embeddings_batch returns
UpsertClauses ==
    \E contract_id \in ContractIds, clauses \in Batches, embeds \in BOOLEAN :
        /\ args' = [op |-> "upsert_clauses", contract_id |-> contract_id, clauses |-> clauses]
        /\ IF clauses # << >> /\ ~embeds
           THEN index' = index /\ result' = Raised
           ELSE /\ index' = upsert_clauses(index, contract_id, clauses)
                /\ result' = [raised |-> FALSE]
        /\ UNCHANGED <<settings, contracts, response>>

\* VectorStore.search_similar; embeds: get_embedding returns; the
\* collection rejects n_results below 1
SearchSimilar ==
    \E contract_id \in ContractIds, query \in Queries, k \in 0..MaxK, embeds \in BOOLEAN :
        /\ args' = [op |-> "search_similar", contract_id |-> contract_id,
                    query |-> query, k |-> k]
        /\ IF ~embeds \/ k < 1
           THEN result' = Raised
           ELSE \E found \in search_similar(index, contract_id, k) :
                    result' = [raised |-> FALSE, value |-> found]
        /\ UNCHANGED <<settings, contracts, response, index>>

\* VectorStore.delete_contract_clauses
DeleteContractClauses ==
    \E contract_id \in ContractIds :
        /\ args' = [op |-> "delete_contract_clauses", contract_id |-> contract_id]
        /\ index' = delete_contract_clauses(index, contract_id)
        /\ result' = [raised |-> FALSE]
        /\ UNCHANGED <<settings, contracts, response>>

\* VectorStore.get_clause_by_id
GetClauseById ==
    \E clause_id \in StoreClauseIds :
        /\ args' = [op |-> "get_clause_by_id", clause_id |-> clause_id]
        /\ result' = [raised |-> FALSE, value |-> get_clause_by_id(index, clause_id)]
        /\ UNCHANGED <<settings, contracts, response, index>>

NextIndex ==
    \/ UpsertClauses
    \/ SearchSimilar
    \/ DeleteContractClauses
    \/ GetClauseById

SpecIndex == InitIndex /\ [][NextIndex]_vars

-----------------------------------------------------------------------------
(* lexguard/nlp/embedders.py: the vectors the store writes and queries with *)

\* the values of settings.embedding_provider the dispatch names
EmbeddingProviders == {"ollama", "openai", "gemini", "sentence-transformers", "chromadb"}

\* one configuration of a process: the provider, and whether the import of
\* sentence_transformers succeeded (HAS_SENTENCE_TRANSFORMERS)
EmbedSettings ==
    [embedding_provider : EmbeddingProviders, has_sentence_transformers : BOOLEAN]

\* the length of the vectors of each backend under its default model:
\* nomic-embed-text, text-embedding-3-small, models/embedding-001,
\* all-MiniLM-L6-v2 and the 384 features of _get_simple_embedding
DimOf(backend) ==
    CASE backend = "ollama" -> 768
      [] backend = "openai" -> 1536
      [] backend = "gemini" -> 768
      [] backend = "sentence-transformers" -> 384
      [] backend = "simple" -> 384

\* a vector, by the backend that produced it and its length
Vector(backend) == [backend |-> backend, dim |-> DimOf(backend)]

Returned(value) == [raised |-> FALSE, value |-> value]

\* what one request to a remote backend can come to
BackendOutcomes == {"ok", "connect_error", "error"}

\* _get_sentence_transformer_embedding
get_sentence_transformer_embedding(s) ==
    IF ~s.has_sentence_transformers THEN Raised
    ELSE Returned(Vector("sentence-transformers"))

\* _get_ollama_embedding: both except branches fall back to
\* sentence-transformers when it is installed
get_ollama_embedding(s, outcome) ==
    IF outcome = "ok" THEN Returned(Vector("ollama"))
    ELSE IF s.has_sentence_transformers THEN get_sentence_transformer_embedding(s)
    ELSE Raised

\* _get_openai_embedding, _get_gemini_embedding
get_remote_embedding(backend, outcome) ==
    IF outcome = "ok" THEN Returned(Vector(backend)) ELSE Raised

\* _get_chromadb_embedding
get_chromadb_embedding == Returned(Vector("simple"))

\* get_embedding
get_embedding(s, outcome) ==
    CASE s.embedding_provider = "ollama" -> get_ollama_embedding(s, outcome)
      [] s.embedding_provider \in {"openai", "gemini"} ->
           get_remote_embedding(s.embedding_provider, outcome)
      [] s.embedding_provider = "sentence-transformers" /\ s.has_sentence_transformers ->
           get_sentence_transformer_embedding(s)
      [] OTHER -> get_chromadb_embedding

\* [x] * n
Repeat(x, n) == [i \in 1..n |-> x]

\* the batch functions: one vector per text from one backend, the whole
\* batch from sentence-transformers once a request to Ollama has failed
get_embeddings_batch(s, outcomes) ==
    Bind(\A i \in 1..Len(outcomes) : outcomes[i] = "ok", LAMBDA all_ok :
        CASE s.embedding_provider = "ollama" ->
               IF all_ok THEN Returned(Repeat(Vector("ollama"), Len(outcomes)))
               ELSE IF s.has_sentence_transformers
               THEN Returned(Repeat(Vector("sentence-transformers"), Len(outcomes)))
               ELSE Raised
          [] s.embedding_provider \in {"openai", "gemini"} ->
               IF all_ok THEN Returned(Repeat(Vector(s.embedding_provider), Len(outcomes)))
               ELSE Raised
          [] s.embedding_provider = "sentence-transformers" /\ s.has_sentence_transformers ->
               Returned(Repeat(Vector("sentence-transformers"), Len(outcomes)))
          [] OTHER -> Returned(Repeat(Vector("simple"), Len(outcomes))))

\* the lists of distinct clause ids of one upsert
IdBatches ==
    {b \in SeqsUpTo(StoreClauseIds, MaxBatch) :
        b # << >> /\ \A i, j \in DOMAIN b : i # j => b[i] # b[j]}

\* the collection takes vectors of one length only
SameDimension(ix, v) == \A e \in ix : e.embedding.dim = v.dim

InitEmbed ==
    /\ settings \in EmbedSettings
    /\ contracts = Idle /\ response = Idle
    /\ index = {}
    /\ args = [op |-> "VectorStore"]
    /\ result = Idle

\* upsert_clauses: the vectors of get_embeddings_batch go to the collection
EmbedAndUpsert ==
    \E ids \in IdBatches :
      \E outcomes \in [1..Len(ids) -> BackendOutcomes] :
        \E got \in {get_embeddings_batch(settings, outcomes)} :
            /\ args' = [op |-> "upsert_clauses", ids |-> ids, outcomes |-> outcomes]
            /\ IF got.raised
               THEN index' = index /\ result' = Raised
               ELSE IF ~SameDimension(index, got.value[1])
               THEN index' = index /\ result' = Raised
               ELSE /\ index' = {e \in index : \A i \in 1..Len(ids) : e.id # ids[i]}
                                  \cup {[id |-> ids[i], embedding |-> got.value[i]] :
                                             i \in 1..Len(ids)}
                    /\ result' = [raised |-> FALSE]
            /\ UNCHANGED <<settings, contracts, response>>

\* search_similar: the vector of get_embedding is the query vector
EmbedAndSearch ==
    \E outcome \in BackendOutcomes :
        \E got \in {get_embedding(settings, outcome)} :
            /\ args' = [op |-> "search_similar", outcome |-> outcome]
            /\ IF got.raised
               THEN result' = Raised
               ELSE result' = [raised |-> ~SameDimension(index, got.value),
                               query_embedding |-> got.value]
            /\ UNCHANGED <<settings, contracts, response, index>>

NextEmbed ==
    \/ EmbedAndUpsert
    \/ EmbedAndSearch

SpecEmbed == InitEmbed /\ [][NextEmbed]_vars

-----------------------------------------------------------------------------
(* The service: backend/routes/upload.py, contract.py and chat.py over the  *)
(* contract files (contracts), the collection (index) and the settings.     *)
(* args is the request, response what the caller gets, result what the      *)
(* capabilities did during the request.                                     *)

SystemTexts == {<<"unlimited", "liability">>, <<"pay">>}

SystemSettings ==
    {s \in LlmSettings : ~s.has_key /\ s.llm_provider \in {"none", "gemini", "ollama"}}

\* the completions the service is run against
SystemStructured(s) ==
    {o \in StructuredOutcomes(s) :
        \/ o.kind \in {"no_client", "raises"}
        \/ /\ o.kind = "dict" /\ o.score_kind = "number" /\ o.score \in {300, 1200}
           /\ o.reasons_kind = "strings"}

SystemChats(s) == {o \in ChatOutcomes(s) : o.kind = "text" => o.text = <<"other">>}

\* f"{contract_id}_clause_{i}"
ClauseId(contract_id, i) == contract_id \o "_clause_" \o ToString(i)

\* the uuid4 values an upload can draw; the other contract ids name no
\* contract
UploadIds == {"c1"}

SystemClauseIds == {ClauseId(c, i) : c \in UploadIds, i \in 0..MaxClauses}

\* what reaches upload_contract: the file name ends in .pdf, the cleaned
\* text has 100 characters, and the list split_into_clauses returns
Documents ==
    {[pdf |-> FALSE, long |-> TRUE, clause_texts |-> << >>],
     [pdf |-> TRUE, long |-> FALSE, clause_texts |-> << >>]}
    \cup {[pdf |-> TRUE, long |-> TRUE, clause_texts |-> t] :
             t \in SeqsUpTo(SystemTexts, MaxClauses)}

HTTP(status, detail) == [status |-> status, detail |-> detail]

\* classify_clause(text) as both handlers call it, kept as a table over
\* the texts the service is run on
RuleTypeOf ==
    [text \in SystemTexts |-> classify_clause(text, FALSE, NotCalled).clause_type]

\* calculate_clause_risk(clause, use_llm=False) on a clause of each text;
\* neither the score nor the level depends on the clause's id or index
UploadRiskOf ==
    [text \in SystemTexts |->
        calculate_clause_risk(Clause("", "", 0, text, RuleTypeOf[text]), FALSE, NoLlm)]

\* calculate_clause_risk(clause, use_llm=True) on a clause of each text
\* under each completion
ReanalysisOf ==
    [text \in SystemTexts, llm \in UNION {SystemStructured(s) : s \in SystemSettings} |->
        calculate_clause_risk(Clause("", "", 0, text, RuleTypeOf[text]), TRUE, llm)]

\* the completion of a call with use_llm=False, which asks for none
Unasked == Suggested("raises", "strings", << >>)

\* suggest_negotiation_points(clause, use_llm=False), which reads the
\* clause's type only, kept as a table over the types
RuleSuggestionsOf ==
    [ty \in ClauseTypeSet |->
        suggest_negotiation_points(Clause("", "", 0, << >>, ty), FALSE, Unasked).value]

\* upload.py lines 136-138, contract.py lines 156-157: the suggestions are
\* attached to a ClauseRisk of level high or medium
Recommended(r, clause) ==
    IF r.raised \/ r.risk.level \notin {"high", "medium"} THEN r
    ELSE [r EXCEPT !.risk.recommendations = RuleSuggestionsOf[clause.clause_type]]

\* upload.py lines 130-138 on a clause of each text
UploadRecommendedOf ==
    [text \in SystemTexts |->
        Recommended(UploadRiskOf[text], UploadRiskOf[text].clause)]

\* upload.py lines 117-140: one turn of the loop over clause_texts
ProcessClause(contract_id, i, clause_text) ==
    IF UploadRiskOf[clause_text].raised THEN Raised
    ELSE [raised |-> FALSE,
          risk |-> [UploadRecommendedOf[clause_text].risk
                       EXCEPT !.clause_id = ClauseId(contract_id, i)],
          clause |-> [Clause(ClauseId(contract_id, i), contract_id, i, clause_text,
                             RuleTypeOf[clause_text])
                         EXCEPT !.risk_score = Some(UploadRiskOf[clause_text].risk.score),
                                !.risk_level = Some(UploadRiskOf[clause_text].risk.level)]]

InitSystem ==
    /\ settings \in SystemSettings
    /\ contracts = [c \in {} |-> << >>]
    /\ index = {}
    /\ response = Idle
    /\ args = [op |-> "startup"]
    /\ result = Idle

\* upload_contract; contract_id is the uuid4 drawn, embeds: the embedding
\* backend answers
UploadContract ==
    \E document \in Documents, embeds \in BOOLEAN :
        /\ args' = [op |-> "upload_contract", document |-> document]
        /\ UNCHANGED settings
        /\ IF ~document.pdf
           THEN /\ response' = HTTP(400, "Only PDF files are supported")
                /\ result' = Idle
                /\ UNCHANGED <<contracts, index>>
           ELSE IF ~document.long
           THEN /\ response' = HTTP(400, "Could not extract sufficient text from PDF")
                /\ result' = Idle
                /\ UNCHANGED <<contracts, index>>
           ELSE IF document.clause_texts = << >>
           THEN /\ response' = HTTP(400, "Could not identify clauses in the document")
                /\ result' = Idle
                /\ UNCHANGED <<contracts, index>>
           ELSE \E contract_id \in UploadIds \ DOMAIN contracts :
                  LET done == [i \in 1..Len(document.clause_texts) |->
                                  ProcessClause(contract_id, i - 1, document.clause_texts[i])]
                      clauses == [i \in 1..Len(done) |-> done[i].clause]
                  IN  /\ result' = IF \E i \in 1..Len(done) : done[i].raised
                                   THEN [embeds |-> embeds]
                                   ELSE [embeds |-> embeds,
                                         risks |-> [i \in 1..Len(done) |-> done[i].risk]]
                      /\ IF (\E i \in 1..Len(done) : done[i].raised) \/ ~embeds
                         THEN /\ response' = HTTP(500, "Error processing file")
                              /\ UNCHANGED <<contracts, index>>
                         ELSE /\ index' = upsert_clauses(index, contract_id, clauses)
                              /\ contracts' = (contract_id :> [id |-> contract_id, clauses |-> clauses])
                                                  @@ contracts
                              /\ response' = [status |-> 200, contract_id |-> contract_id,
                                              clause_count |-> Len(clauses)]

\* contract.py lines 301-308: the body of analyze_clause's try on the
\* clause: its text and type are replaced, calculate_clause_risk writes its
\* score and level
Reanalyze(target_clause, text, llm) ==
    [raised |-> ReanalysisOf[text, llm].raised,
     clause |-> [target_clause EXCEPT
                    !.text = text,
                    !.clause_type = RuleTypeOf[text],
                    !.risk_score = ReanalysisOf[text, llm].clause.risk_score,
                    !.risk_level = ReanalysisOf[text, llm].clause.risk_level]]

\* a lookup that settles for the first clause when no id matches
find_clause_or_first(clauses, clause_id) ==
    Bind({i \in 1..Len(clauses) : clauses[i].id = clause_id}, LAMBDA hits :
        IF hits # {} THEN Some(CHOOSE h \in hits : \A g \in hits : h <= g)
        ELSE IF clauses = << >> THEN None ELSE Some(1))

\* contract.py lines 292-296: the position of the first clause of that id
find_clause(clauses, clause_id) ==
    Bind({i \in 1..Len(clauses) : clauses[i].id = clause_id}, LAMBDA hits :
        IF hits = {} THEN None ELSE Some(CHOOSE h \in hits : \A g \in hits : h <= g))

\* analyze_clause
AnalyzeClause ==
    \E contract_id \in ContractIds, clause_id \in SystemClauseIds, text \in SystemTexts :
        /\ args' = [op |-> "analyze_clause", contract_id |-> contract_id,
                    clause_id |-> clause_id, text |-> text]
        /\ UNCHANGED <<settings, index>>
        /\ IF contract_id \notin DOMAIN contracts
           THEN /\ response' = HTTP(404, "Contract not found")
                /\ result' = Idle
                /\ UNCHANGED contracts
           ELSE \E target \in {find_clause(contracts[contract_id].clauses, clause_id)} :
                    IF target = None
                    THEN /\ response' = HTTP(404, "Clause not found")
                         /\ result' = Idle
                         /\ UNCHANGED contracts
                    ELSE \E llm \in SystemStructured(settings),
                            i \in {target[1]},
                            was \in {contracts} :
                           \E r \in {Reanalyze(was[contract_id].clauses[i], text, llm)} :
                              /\ result' = [llm |-> llm]
                              /\ IF r.raised
                                 THEN /\ response' = HTTP(500, "Error analyzing clause")
                                      /\ UNCHANGED contracts
                                 ELSE /\ contracts' =
                                           [contracts EXCEPT ![contract_id].clauses[i] = r.clause]
                                      /\ response' = [status |-> 200, clause |-> r.clause]

\* contract.py lines 143-154: the ClauseRisk of one clause of the contract
StoredOrComputedRisk(clause) ==
    IF clause.risk_score = None
    THEN calculate_clause_risk(clause, FALSE, NoLlm)
    ELSE IF ClauseRiskValid(clause.risk_score[1], clause.risk_level[1], TRUE)
    THEN [raised |-> FALSE, clause |-> clause,
          risk |-> [clause_id |-> clause.id, score |-> clause.risk_score[1],
                    level |-> clause.risk_level[1], reasons |-> << >>,
                    recommendations |-> << >>]]
    ELSE [raised |-> TRUE, clause |-> clause, risk |-> None]

\* get_contract_risk
GetContractRisk ==
    \E contract_id \in ContractIds :
        /\ args' = [op |-> "get_contract_risk", contract_id |-> contract_id]
        /\ result' = Idle
        /\ UNCHANGED <<settings, contracts, index>>
        /\ IF contract_id \notin DOMAIN contracts
           THEN response' = HTTP(404, "Contract not found")
           ELSE \E risks \in {[i \in 1..Len(contracts[contract_id].clauses) |->
                                  Recommended(
                                      StoredOrComputedRisk(contracts[contract_id].clauses[i]),
                                      contracts[contract_id].clauses[i])]} :
                  IF \E i \in 1..Len(risks) : risks[i].raised
                  THEN response' = HTTP(500, "Error calculating risk")
                  ELSE response' =
                         [status |-> 200, contract_id |-> contract_id,
                          total_clauses |-> Len(risks),
                          high_risk_count |->
                              Cardinality({i \in 1..Len(risks) : risks[i].risk.level = "high"}),
                          medium_risk_count |->
                              Cardinality({i \in 1..Len(risks) : risks[i].risk.level = "medium"}),
                          low_risk_count |->
                              Cardinality({i \in 1..Len(risks) : risks[i].risk.level = "low"}),
                          clause_risks |-> [i \in 1..Len(risks) |-> risks[i].risk]]

\* contract.py lines 201-210: the ClauseRisk the report shows for one clause
ReportRisk(clause) ==
    IF clause.risk_score = None
    THEN calculate_clause_risk(clause, FALSE, NoLlm)
    ELSE IF ClauseRiskValid(clause.risk_score[1], clause.risk_level[1], TRUE)
    THEN [raised |-> FALSE, clause |-> clause,
          risk |-> [clause_id |-> clause.id, score |-> clause.risk_score[1],
                    level |-> clause.risk_level[1],
                    reasons |-> <<"Risk level: " \o clause.risk_level[1]>>,
                    recommendations |-> RuleSuggestionsOf[clause.clause_type]]]
    ELSE [raised |-> TRUE, clause |-> clause, risk |-> None]

\* download_report; build_contract_summary falls back to its rule-based
\* summary, renders: generate_pdf_report writes the file.  The response is
\* the file made of the clause risks.
DownloadReport ==
    \E contract_id \in ContractIds, renders \in BOOLEAN :
        /\ args' = [op |-> "download_report", contract_id |-> contract_id]
        /\ result' = Idle
        /\ UNCHANGED <<settings, contracts, index>>
        /\ IF contract_id \notin DOMAIN contracts
           THEN response' = HTTP(404, "Contract not found")
           ELSE \E risks \in {[i \in 1..Len(contracts[contract_id].clauses) |->
                                  ReportRisk(contracts[contract_id].clauses[i])]} :
                  IF (\E i \in 1..Len(risks) : risks[i].raised) \/ ~renders
                  THEN response' = HTTP(500, "Error generating report")
                  ELSE response' =
                         [status |-> 200, contract_id |-> contract_id,
                          report |-> [i \in 1..Len(risks) |-> risks[i].risk]]

\* chat.py lines 62-65: the answer of the handler to an empty search
ChatApology ==
    "I couldn't find relevant clauses to answer your question. Try rephrasing or ask about specific topics like termination, liability, or payment."

\* chat.py lines 133-136: the answer of the builder to an empty list
BuilderApology ==
    "I couldn't find relevant clauses to answer your question. Try rephrasing or ask about specific topics like termination, liability, payment, or obligations."

\* An answer is the sequence of the parts that are joined into it
TextPart(s) == [kind |-> "text", text |-> s]

\* the sections of _build_rule_based_chat_answer in the order of its
\* if / elif chain
Buckets == <<"obligations", "payment", "termination", "liability", "dates", "ip">>

\* the words whose occurrence in the lower-cased question selects a section
TRIGGERS(bucket) ==
    CASE bucket = "obligations" ->
           {"obligation", "responsibilit", "duty", "must", "required", "deliverable"}
      [] bucket = "payment" -> {"payment", "fee", "cost", "price", "amount", "due", "refund"}
      [] bucket = "termination" ->
           {"terminat", "end", "cancel", "exit", "leave", "notice period"}
      [] bucket = "liability" -> {"liability", "indemnif", "damage", "risk", "responsible"}
      [] bucket = "dates" -> {"date", "deadline", "duration", "term", "when", "time", "period"}
      [] bucket = "ip" -> {"intellectual property", "ip", "copyright", "patent", "ownership"}

\* the words whose occurrence in a clause's lower-cased text puts the
\* clause in a section
FILTERS(bucket) ==
    CASE bucket = "obligations" -> {"obligation"}
      [] bucket = "payment" -> {"payment", "fee", "cost", "amount", "$"}
      [] bucket = "termination" -> {"terminat", "cancel", "end", "notice"}
      [] bucket = "liability" -> {"liability", "indemnif", "damage"}
      [] bucket = "dates" ->
           {"date", "deadline", "duration", "term", "period", "day", "month", "year"}
      [] bucket = "ip" -> {"intellectual", "copyright", "patent", "ownership"}

\* 'keyword in word': the keywords without a blank that are substrings of
\* one word of the vocabulary ("ip" occurs in "ownership", "end" in "vendor")
KeywordsIn(w) ==
    CASE w = "fees" -> {"fee"}
      [] w = "liability" -> {"liability"}
      [] w = "notice" -> {"notice"}
      [] w = "obligations" -> {"obligation"}
      [] w = "ownership" -> {"ip", "ownership"}
      [] w = "payment" -> {"payment"}
      [] w = "period" -> {"period"}
      [] w = "risks" -> {"risk"}
      [] w = "terminate" -> {"term", "terminat"}
      [] w = "termination" -> {"term", "terminat"}
      [] w = "vendor" -> {"end"}
      [] OTHER -> {}

\* 'keyword in text_lower' for a text of words joined by single blanks; a
\* keyword of two words occurs where a word ending in its first word meets
\* a word starting with its second, which in the vocabulary are those words
OccursIn(keyword, text_lower) ==
    IF keyword = "notice period"
    THEN \E i \in 1..(Len(text_lower) - 1) :
            text_lower[i] = "notice" /\ text_lower[i + 1] = "period"
    ELSE IF keyword = "intellectual property"
    THEN \E i \in 1..(Len(text_lower) - 1) :
            text_lower[i] = "intellectual" /\ text_lower[i + 1] = "property"
    ELSE \E i \in 1..Len(text_lower) : keyword \in KeywordsIn(text_lower[i])

\* any(word in text_lower for word in keywords)
AnyOccursIn(keywords, text_lower) ==
    \/ \E i \in 1..Len(text_lower) : KeywordsIn(text_lower[i]) \cap keywords # {}
    \/ \E k \in keywords \cap {"notice period", "intellectual property"} :
          OccursIn(k, text_lower)

\* the condition of the list comprehension of each section
InBucket(bucket, c) ==
    CASE bucket = "obligations" ->
           \/ OccursIn("obligation", Lower(c.text))
           \/ c.type \in {"payment", "termination", "confidentiality"}
      [] bucket = "liability" ->
           \/ c.type = "liability"
           \/ c.risk_level \in {"high", "medium"}
           \/ AnyOccursIn(FILTERS(bucket), Lower(c.text))
      [] bucket = "dates" -> AnyOccursIn(FILTERS(bucket), Lower(c.text))
      [] OTHER -> c.type = bucket \/ AnyOccursIn(FILTERS(bucket), Lower(c.text))

\* the heading each section starts with
Heading(bucket) ==
    CASE bucket = "obligations" ->
           "**Based on the contract clauses, here are the key obligations:**\n\n"
      [] bucket = "payment" -> "**Payment and Financial Terms:**\n\n"
      [] bucket = "termination" -> "**Termination and Exit Conditions:**\n\n"
      [] bucket = "liability" -> "**Liability and Risk Assessment:**\n\n"
      [] bucket = "dates" -> "**Important Dates and Timeframes:**\n\n"
      [] bucket = "ip" -> "**Intellectual Property Terms:**\n\n"
      [] OTHER -> "**Relevant Contract Clauses:**\n\n"

\* clause.get("type", "clause").replace("_", " ").title()
TitleOf(clause_type) ==
    CASE clause_type = "termination" -> "Termination"
      [] clause_type = "liability" -> "Liability"
      [] clause_type = "payment" -> "Payment"
      [] clause_type = "confidentiality" -> "Confidentiality"
      [] clause_type = "ip" -> "Ip"
      [] clause_type = "non_compete" -> "Non Compete"
      [] clause_type = "misc" -> "Misc"
      [] clause_type = "unsure" -> "Unsure"

\* str.upper() on a risk level
UpperOf(risk_level) ==
    CASE risk_level = "high" -> "HIGH"
      [] risk_level = "medium" -> "MEDIUM"
      [] risk_level = "low" -> "LOW"
      [] risk_level = "unknown" -> "UNKNOWN"

\* the line appended for the i-th listed clause: its number, the title and
\* the risk where the section prints them, and the snippet.  The texts of
\* the model are shorter than the 280 characters at which a snippet is cut.
ItemPart(bucket, i, c) ==
    CASE bucket \in {"payment", "termination", "dates", "ip"} ->
           [kind |-> "item", n |-> i, snippet |-> c.text]
      [] bucket = "obligations" ->
           [kind |-> "item", n |-> i, title |-> TitleOf(c.type), snippet |-> c.text]
      [] bucket = "liability" ->
           [kind |-> "item", n |-> i, title |-> TitleOf(c.type),
            risk |-> UpperOf(c.risk_level), snippet |-> c.text]
      [] OTHER ->
           [kind |-> "item", n |-> i, title |-> TitleOf(c.type),
            risk |-> c.risk_level, snippet |-> c.text]

\* the section the question selects: the first whose trigger occurs
BucketOf(question_lower) ==
    LET hit == {b \in 1..Len(Buckets) : AnyOccursIn(TRIGGERS(Buckets[b]), question_lower)}
    IN  IF hit = {} THEN "general"
        ELSE Buckets[CHOOSE b \in hit : \A o \in hit : b <= o]

\* a section that lists every clause its filter keeps, or every clause
\* when it keeps none
Listed_all(bucket, clauses) ==
    Bind(IF bucket = "general" THEN clauses
         ELSE SelectIdx(clauses, {i \in 1..Len(clauses) : InBucket(bucket, clauses[i])}),
         LAMBDA kept : IF kept = << >> THEN clauses ELSE kept)

\* the clauses a section lists: those its filter keeps, or the first three
\* when it keeps none, and of these the first five; the general section
\* lists the first five
Listed(bucket, clauses) ==
    Bind(IF bucket = "general" THEN clauses
         ELSE SelectIdx(clauses, {i \in 1..Len(clauses) : InBucket(bucket, clauses[i])}),
         LAMBDA kept :
            Bind(IF kept = << >> THEN SubSeq(clauses, 1, Min(3, Len(clauses))) ELSE kept,
                 LAMBDA chosen : SubSeq(chosen, 1, Min(5, Len(chosen)))))

ClosingRule == "\n---\n"

\* the closing tip (the symbol it starts with is left out)
ClosingTip ==
    "**Tip**: Review the full clause text in the 'Clause Analysis' tab for complete details. Download the PDF report for a comprehensive analysis."

\* _build_rule_based_chat_answer(question, clauses)
build_rule_based_chat_answer(question, clauses) ==
    IF clauses = << >> THEN <<TextPart(BuilderApology)>>
    ELSE Bind(BucketOf(Lower(question)), LAMBDA bucket :
            Bind(Listed(bucket, clauses), LAMBDA listed :
                <<TextPart(Heading(bucket))>>
                    \o [i \in 1..Len(listed) |-> ItemPart(bucket, i, listed[i])]
                    \o <<TextPart(ClosingRule), TextPart(ClosingTip)>>))

\* chat.py lines 72-87: the summary of one search result
RelevantClause(found) ==
    [id |-> found.id, text |-> found.text, type |-> found.metadata.clause_type,
     risk_level |-> found.metadata.risk_level]

\* chat.py lines 61-117: the response once the search has returned; the
\* texts of the model are shorter than the 200 characters at which a
\* summary is cut
ChatAnswer(query, search_results, llm) ==
    IF search_results = << >>
    THEN [status |-> 200, answer |-> <<TextPart(ChatApology)>>, relevant_clauses |-> << >>]
    ELSE Bind([i \in 1..Len(search_results) |-> RelevantClause(search_results[i])],
              LAMBDA relevant_clauses :
                CASE llm.kind = "no_client" ->
                       HTTP(500, "Error processing your question. Please try again.")
                  [] llm.kind = "text" ->
                       [status |-> 200, answer |-> <<[kind |-> "llm", text |-> llm.text]>>,
                        relevant_clauses |-> relevant_clauses]
                  [] OTHER ->
                       [status |-> 200,
                        answer |-> build_rule_based_chat_answer(query, relevant_clauses),
                        relevant_clauses |-> relevant_clauses])

\* chat_with_contract; embeds: the embedding backend answers the query
ChatWithContract ==
    \E contract_id \in ContractIds, query \in Queries, embeds \in BOOLEAN :
        /\ args' = [op |-> "chat_with_contract", contract_id |-> contract_id, query |-> query]
        /\ UNCHANGED <<settings, contracts, index>>
        /\ IF contract_id \notin DOMAIN contracts
           THEN /\ response' = HTTP(404, "Contract not found")
                /\ result' = Idle
           ELSE IF ~embeds
           THEN /\ response' = HTTP(500, "Error processing your question. Please try again.")
                /\ result' = [searched |-> FALSE]
           ELSE \E search_results \in search_similar(index, contract_id, 5) :
                  IF search_results = << >>
                  THEN /\ response' = ChatAnswer(query, search_results, NotCalled)
                       /\ result' = [searched |-> TRUE, retrieved |-> 0]
                  ELSE \E llm \in SystemChats(settings) :
                         /\ result' = [searched |-> TRUE, retrieved |-> Len(search_results),
                                       llm |-> llm]
                         /\ response' = ChatAnswer(query, search_results, llm)

Next ==
    \/ UploadContract
    \/ AnalyzeClause
    \/ GetContractRisk
    \/ DownloadReport
    \/ ChatWithContract

Spec == InitSystem /\ [][Next]_vars

-----------------------------------------------------------------------------
(* two analyze_clause requests on one stored contract, step by step         *)

Requests == {1, 2}

\* the server: one event loop, in which a handler without an await runs to
\* its end before another starts, or two server processes on one data
\* directory
ServerSettings ==
    {[llm_provider |-> s.llm_provider, has_key |-> s.has_key, workers |-> w] :
        s \in SystemSettings, w \in {1, 2}}

\* the contract an upload of these texts has stored
StoredContract(contract_id, clause_texts) ==
    [id |-> contract_id,
     clauses |-> [i \in 1..Len(clause_texts) |->
                     ProcessClause(contract_id, i - 1, clause_texts[i]).clause]]

InitRequests ==
    /\ settings \in ServerSettings
    /\ contracts \in {("c1" :> StoredContract("c1", t)) :
                          t \in {u \in SeqsUpTo(SystemTexts, MaxClauses) : Len(u) = MaxClauses}}
    /\ index = Idle
    /\ args \in [Requests -> {[contract_id |-> "c1", clause_id |-> ClauseId("c1", i), text |-> t] :
                                 i \in 0..(MaxClauses - 1), t \in SystemTexts}]
    /\ result = [r \in Requests |-> [pc |-> "start", contract |-> None]]
    /\ response = [r \in Requests |-> Idle]

\* whether the server lets request r take a step now
Scheduled(r) ==
    settings.workers = 1 =>
        \A o \in Requests \ {r} : result[o].pc \in {"start", "done"}

\* contract = load_contract(contract_id)
LoadContract(r) ==
    /\ result[r].pc = "start"
    /\ Scheduled(r)
    /\ result' = [result EXCEPT ![r] = [pc |-> "loaded",
                                         contract |-> Some(contracts[args[r].contract_id])]]
    /\ UNCHANGED <<settings, contracts, index, response, args>>

\* the search for the clause and the try block up to save_contract, on the
\* request's own copy of the contract
ModifyClause(r) ==
    /\ result[r].pc = "loaded"
    /\ Scheduled(r)
    /\ \E target \in {find_clause(result[r].contract[1].clauses, args[r].clause_id)},
          llm \in SystemStructured(settings) :
          \E done \in {Reanalyze(result[r].contract[1].clauses[target[1]], args[r].text, llm)} :
             IF done.raised
             THEN /\ result' = [result EXCEPT ![r].pc = "done"]
                  /\ response' = [response EXCEPT ![r] = HTTP(500, "Error analyzing clause")]
             ELSE /\ result' = [result EXCEPT
                                   ![r].pc = "modified",
                                   ![r].contract =
                                       Some([@[1] EXCEPT !.clauses[target[1]] = done.clause])]
                  /\ response' = [response EXCEPT
                                     ![r] = [status |-> 200, clause |-> done.clause]]
    /\ UNCHANGED <<settings, contracts, index, args>>

\* save_contract(contract): the file of the contract is written whole
SaveContract(r) ==
    /\ result[r].pc = "modified"
    /\ Scheduled(r)
    /\ contracts' = [contracts EXCEPT ![args[r].contract_id] = result[r].contract[1]]
    /\ result' = [result EXCEPT ![r].pc = "done"]
    /\ UNCHANGED <<settings, index, response, args>>

NextRequests ==
    \/ \E r \in Requests : LoadContract(r)
    \/ \E r \in Requests : ModifyClause(r)
    \/ \E r \in Requests : SaveContract(r)

SpecRequests == InitRequests /\ [][NextRequests]_vars

-----------------------------------------------------------------------------
(* the process-wide caches: _embedding_model of lexguard/nlp/embedders.py   *)
(* and _chroma_client of lexguard/storage/chroma_store.py, read and written *)
(* by concurrent callers one statement at a time                            *)

Callers == {1, 2}

Caches == {"_embedding_model", "_chroma_client"}

\* an object, by the call that constructs it and whether its constructor
\* has returned
Handle(caller, call, constructed) ==
    [by |-> caller, call |-> call, constructed |-> constructed]

\* a caller between calls
Quiet(pc) == pc \in {"idle", "returned", "raised"}

\* an assignment that stores the object as soon as it is allocated
AssignsAt_allocated(pc) == pc \in {"allocated", "built"}

\* '_embedding_model = SentenceTransformer(model_name)': the name is bound
\* when the constructor has returned
AssignsAt(pc) == pc = "built"

\* the variable 'index' holds the two module globals here, 'result' each
\* caller's position and locals, 'args' the cache each caller asks for
InitCache ==
    /\ settings = NoSettings
    /\ contracts = Idle /\ response = Idle
    /\ index = [n \in Caches |-> None]
    /\ args = [c \in Callers |-> [cache |-> "_embedding_model"]]
    /\ result = [c \in Callers |->
                    [pc |-> "idle", calls |-> 0, seen |-> None, local |-> None,
                     got |-> None]]

\* a call of _get_sentence_transformer_embedding(s_batch) or of
\* get_chroma_client begins
Call(c) ==
    /\ Quiet(result[c].pc)
    /\ result[c].calls < MaxCalls
    /\ \E n \in Caches : args' = [args EXCEPT ![c] = [cache |-> n]]
    /\ result' = [result EXCEPT ![c] = [pc |-> "check", calls |-> @.calls + 1,
                                         seen |-> None, local |-> None, got |-> None]]
    /\ UNCHANGED <<settings, contracts, index, response>>

\* 'if _embedding_model is None:' / 'if _chroma_client is None:'
CheckCache(c) ==
    /\ result[c].pc = "check"
    /\ result' = [result EXCEPT
                     ![c].seen = index[args[c].cache],
                     ![c].pc = IF index[args[c].cache] = None THEN "construct" ELSE "use"]
    /\ UNCHANGED <<settings, contracts, index, response, args>>

\* SentenceTransformer(model_name) / chromadb.PersistentClient(path=...)
\* starts on a new object, or raises
Allocate(c) ==
    /\ result[c].pc = "construct"
    /\ \E ok \in BOOLEAN :
          result' = [result EXCEPT
                        ![c].pc = IF ok THEN "allocated" ELSE "raised",
                        ![c].local = IF ok THEN Some(Handle(c, result[c].calls, FALSE))
                                     ELSE None]
    /\ UNCHANGED <<settings, contracts, index, response, args>>

\* the constructor returns
Construct(c) ==
    /\ result[c].pc = "allocated"
    /\ result' = [result EXCEPT
                     ![c].pc = "built",
                     ![c].local = Some(Handle(c, result[c].calls, TRUE))]
    /\ UNCHANGED <<settings, contracts, index, response, args>>

\* the global is assigned
AssignCache(c) ==
    /\ AssignsAt(result[c].pc)
    /\ index' = [index EXCEPT ![args[c].cache] = result[c].local]
    /\ result' = [result EXCEPT ![c].pc = "use"]
    /\ UNCHANGED <<settings, contracts, response, args>>

\* '_embedding_model.encode(...)' / 'return _chroma_client': the global is
\* read again and the call returns
UseCache(c) ==
    /\ result[c].pc = "use"
    /\ result' = [result EXCEPT ![c].pc = "returned", ![c].got = index[args[c].cache]]
    /\ UNCHANGED <<settings, contracts, index, response, args>>

\* reset_chroma_client, as a test calls it: between calls
ResetChromaClient ==
    /\ \A c \in Callers : Quiet(result[c].pc)
    /\ index["_chroma_client"] # None
    /\ index' = [index EXCEPT !["_chroma_client"] = None]
    /\ result' = [c \in Callers |->
                     IF args[c].cache = "_chroma_client"
                     THEN [result[c] EXCEPT !.pc = "idle", !.seen = None, !.local = None,
                                            !.got = None]
                     ELSE result[c]]
    /\ UNCHANGED <<settings, contracts, response, args>>

NextCache ==
    \/ \E c \in Callers : Call(c)
    \/ \E c \in Callers : CheckCache(c)
    \/ \E c \in Callers : Allocate(c)
    \/ \E c \in Callers : Construct(c)
    \/ \E c \in Callers : AssignCache(c)
    \/ \E c \in Callers : UseCache(c)
    \/ ResetChromaClient

SpecCache == InitCache /\ [][NextCache]_vars

-----------------------------------------------------------------------------
(* the answer to one question once the search has returned                  *)

QuestionWords ==
    {"Obligations", "payment", "vendor", "risks", "notice", "period", "hello"}

Questions == SeqsUpTo(QuestionWords, MaxQuestionWords)

\* one result of search_similar
Found(id, text, clause_type, risk_level) ==
    [id |-> id, text |-> text,
     metadata |-> [contract_id |-> "c1", clause_type |-> clause_type, index |-> 0,
                   risk_level |-> risk_level]]

Retrievable ==
    {Found("c1_clause_0", <<"vendor", "fees">>, "payment", "low"),
     Found("c1_clause_1", <<"unlimited", "liability">>, "liability", "high"),
     Found("c1_clause_2", <<"notice", "period">>, "termination", "medium"),
     Found("c1_clause_3", <<"hello">>, "misc", "unknown")}

Retrievals == SeqsUpTo(Retrievable, MaxRetrieved)

\* the completions of llm.chat the handler is run against
AnswerChats == {Chat("no_client", << >>), Chat("raises", << >>), Chat("text", <<"other">>)}

InitAnswer ==
    /\ settings = NoSettings
    /\ contracts = Idle /\ index = Idle /\ response = Idle
    /\ args \in {[question |-> q, retrieved |-> r, llm |-> l] :
                    q \in Questions, r \in Retrievals, l \in AnswerChats}
    /\ result = Pending

\* chat_with_contract from the return of the search on
AnswerAfterSearch ==
    /\ result = Pending
    /\ response' = ChatAnswer(args.question, args.retrieved, args.llm)
    /\ result' = [by |-> "chat_with_contract"]
    /\ UNCHANGED <<settings, contracts, index, args>>

\* _build_rule_based_chat_answer on the summaries of the results
CallBuildRuleBasedChatAnswer ==
    /\ result = Pending
    /\ result' = [by |-> "_build_rule_based_chat_answer",
                  answer |-> build_rule_based_chat_answer(
                                 args.question,
                                 [i \in 1..Len(args.retrieved) |->
                                     RelevantClause(args.retrieved[i])])]
    /\ UNCHANGED <<settings, contracts, index, response, args>>

NextAnswer ==
    \/ AnswerAfterSearch
    \/ CallBuildRuleBasedChatAnswer

SpecAnswer == InitAnswer /\ [][NextAnswer]_vars

-----------------------------------------------------------------------------
(* suggest_negotiation_points on one clause                                 *)

InitSuggest ==
    /\ settings \in LlmSettings
    /\ contracts = Idle /\ index = Idle /\ response = Idle
    /\ args \in {[suggest_for |-> [Clause("c_clause_0", "c", 0, << >>, ty)
                                      EXCEPT !.risk_level = level],
                  use_llm |-> u] :
                    ty \in ClauseTypeSet, u \in BOOLEAN,
                    level \in {None} \cup {Some(l) : l \in RiskLevels}}
    /\ result = Pending

CallSuggestNegotiationPoints ==
    /\ result = Pending
    /\ "suggest_for" \in DOMAIN args
    /\ \E llm \in SuggestionOutcomes(settings) :
          result' = [llm |-> llm]
                       @@ suggest_negotiation_points(args.suggest_for, args.use_llm, llm)
    /\ UNCHANGED <<settings, contracts, index, response, args>>

NextSuggest == CallSuggestNegotiationPoints

SpecSuggest == InitSuggest /\ [][NextSuggest]_vars

-----------------------------------------------------------------------------
(* C3: with LLM enhancement disabled, the score calculate_clause_risk      *)
(* returns and writes to clause.risk_score lies in [0,1], for every clause *)
(* type and text: the sum is truncated at 1.0 and never falls below 0.     *)
C3_ScoreInUnitInterval ==
    (result # Pending) =>
        /\ ~result.raised
        /\ 0 <= result.risk.score /\ result.risk.score <= 1000
        /\ result.clause.risk_score = Some(result.risk.score)
        /\ result.risk.score = Min(UncappedScore(args.clause), 1000)

\* a clause whose adjustments add up to more than 1.0 has been scored
C3_Witness ==
    /\ result # Pending
    /\ UncappedScore(args.clause) > 1000
    /\ result.risk.score = 1000

(* C4: score_to_level maps every score below 0.33 to low, every score from *)
(* 0.33 up to but excluding 0.66 to medium and every score of 0.66 or more *)
(* to high; 0.32 is low, 0.33 medium, 0.65 medium and 0.66 high.           *)
C4_ScoreToLevel ==
    (result # Pending) =>
        /\ (args.score < 330) => result.level = "low"
        /\ (330 <= args.score /\ args.score < 660) => result.level = "medium"
        /\ (args.score >= 660) => result.level = "high"
        /\ (args.score = 320) => result.level = "low"
        /\ (args.score = 330) => result.level = "medium"
        /\ (args.score = 650) => result.level = "medium"
        /\ (args.score = 660) => result.level = "high"

\* the boundary score 0.33 has been mapped
C4_Witness == result # Pending /\ args.score = 330 /\ result.level = "medium"

-----------------------------------------------------------------------------
(* classify_clause on one text                                             *)

ClassifyWords ==
    {"Terminate", "liability", "limitation", "of", "pay", "non-compete"}

ClassifyTexts == SeqsUpTo(ClassifyWords, MaxClassifyWords)

InitClassify ==
    /\ settings \in LlmSettings
    /\ contracts = Idle /\ index = Idle /\ response = Idle
    /\ args \in {[text |-> text, use_llm |-> u] : text \in ClassifyTexts, u \in BOOLEAN}
    /\ result = Pending

CallClassifyClause ==
    /\ result = Pending
    /\ "text" \in DOMAIN args
    /\ \E llm \in ChatOutcomes(settings) :
          result' = classify_clause(args.text, args.use_llm, llm)
    /\ UNCHANGED <<settings, contracts, index, response, args>>

NextClassify == CallClassifyClause

SpecClassify == InitClassify /\ [][NextClassify]_vars

\* the six types that have patterns, as declared
C8_Declared ==
    <<"termination", "liability", "payment", "confidentiality", "ip", "non_compete">>

\* the total number of pattern match occurrences of each declared type
C8_Totals(text) ==
    Bind(Lower(text), LAMBDA text_lower :
        [i \in 1..Len(C8_Declared) |-> TypeScore(C8_Declared[i], text_lower)])

C8_Holds(got, totals) ==
    LET n == Len(C8_Declared)
        pos(ty) == CHOOSE i \in 1..n : C8_Declared[i] = ty
    IN  /\ (got = "misc") <=> (\A i \in 1..n : totals[i] = 0)
        /\ (got # "misc") =>
              /\ got \in Range(C8_Declared)
              /\ \A i \in 1..n :
                    /\ totals[i] <= totals[pos(got)]
                    /\ (i < pos(got)) => totals[i] < totals[pos(got)]
        /\ \A i \in 1..n :
              (totals[i] > 0 /\ \A j \in 1..n : j # i => totals[j] = 0)
              => got = C8_Declared[i]

(* C8: without escalation, classify_clause returns miscellaneous exactly   *)
(* when no pattern of any type matches; otherwise it returns the type with *)
(* the highest total of match occurrences, the first declared among ties;  *)
(* a text matching one type's patterns only gets that type.                *)
C8_RuleClassification ==
    (result # Pending /\ "text" \in DOMAIN args /\ ~args.use_llm) =>
        /\ ~result.raised
        /\ Bind(C8_Totals(args.text), LAMBDA totals : C8_Holds(result.clause_type, totals))

\* a text whose highest total is shared by two types has been classified
\* as the one declared first
C8_Witness ==
    /\ result # Pending /\ ~args.use_llm
    /\ result.clause_type = "termination"
    /\ C8_Totals(args.text) = <<1, 0, 1, 0, 0, 0>>

(* C9: classify_clause never fails: when escalation is allowed and the     *)
(* completion capability is unavailable or raises, the rule-based result   *)
(* (miscellaneous) is returned; the capability is consulted only when      *)
(* escalation is allowed and the rule-based result is miscellaneous or     *)
(* unsure.                                                                 *)
C9_ClassifyNeverFails ==
    (result # Pending /\ "text" \in DOMAIN args) =>
        /\ ~result.raised
        /\ result.clause_type \in ClauseTypeSet
        /\ Bind(classify_with_rules(args.text), LAMBDA rule :
              /\ result.llm_called <=> (args.use_llm /\ rule \in {"misc", "unsure"})
              /\ (result.llm_called /\ result.llm.kind # "text") =>
                    (rule = "misc" /\ result.clause_type = "misc")
              /\ ~result.llm_called => result.clause_type = rule)

\* escalation was tried and the capability failed
C9_Witness ==
    /\ result # Pending /\ "text" \in DOMAIN args
    /\ result.llm_called
    /\ result.llm.kind \in {"no_client", "raises", "no_text"}
    /\ result.clause_type = "misc"

(* C5: calculate_clause_risk never raises: for every clause and every      *)
(* behaviour of the completion capability when enhancement is enabled      *)
(* (client cannot be built, call raises, or the structured result carries  *)
(* any value, a score outside [0,1], a non-numeric score or reasons that   *)
(* are no list of strings included), the call returns a ClauseRisk.        *)
C5_NeverRaises ==
    (result # Pending /\ "clause" \in DOMAIN args) =>
        (~result.raised /\ result.risk # None)

-----------------------------------------------------------------------------
(* C10: every clause split_into_clauses returns has no blank at either end  *)
(* and is at least min_length characters long, whether the numbered-section *)
(* split or the paragraph split produced it.                                *)
C10_Trimmed(c) == c # << >> /\ ~IsSpace(c[1]) /\ ~IsSpace(c[Len(c)])

C10_TrimmedAndLongEnough ==
    (result # Pending /\ "contract_text" \in DOMAIN args) =>
        \A k \in 1..Len(result.clauses) :
            /\ C10_Trimmed(result.clauses[k])
            /\ Len(result.clauses[k]) >= args.min_length

\* the numbered split keeps one section and drops a shorter one
C10_Witness ==
    /\ result # Pending /\ "contract_text" \in DOMAIN args
    /\ result.numbered /\ Len(result.clauses) = 1
    /\ args.min_length = 5
    /\ Len(split_by_numbered_sections(args.contract_text)) = 2
    /\ \E i \in 1..2 :
          LET piece == strip(split_by_numbered_sections(args.contract_text)[i])
          IN  Len(piece) < 5 /\ ~is_likely_header(piece)


-----------------------------------------------------------------------------
(* C1: whatever the collection holds, search_similar(contract_id, query, k) *)
(* returns only entries whose metadata.contract_id is the contract_id       *)
(* asked for, never an entry of another contract.                           *)
C1_SearchStaysInContract ==
    (args.op = "search_similar" /\ ~result.raised) =>
        \A i \in 1..Len(result.value) :
            /\ result.value[i] \in index
            /\ result.value[i].metadata.contract_id = args.contract_id

\* a search with room for more results, run while the collection also
\* holds an entry of the other contract
C1_Witness ==
    /\ args.op = "search_similar" /\ ~result.raised
    /\ Len(result.value) = 1 /\ args.k = MaxK
    /\ \E e \in index : e.metadata.contract_id # args.contract_id


-----------------------------------------------------------------------------
(* C2: after any sequence of uploads, risk computations and clause          *)
(* re-analyses, every clause of every stored contract has risk_score and    *)
(* risk_level both absent or both present, and when present the level is    *)
(* the image of the score: low below 0.33, medium below 0.66, high from     *)
(* 0.66.                                                                    *)
C2_LevelOf(score) ==
    IF score < 330 THEN "low" ELSE IF score < 660 THEN "medium" ELSE "high"

C2_LevelMatchesScore ==
    \A c \in DOMAIN contracts :
        \A i \in 1..Len(contracts[c].clauses) :
            LET clause == contracts[c].clauses[i]
            IN  \/ clause.risk_score = None /\ clause.risk_level = None
                \/ /\ clause.risk_score # None /\ clause.risk_level # None
                   /\ clause.risk_level[1] = C2_LevelOf(clause.risk_score[1])

\* a re-analysis with a completion's score blended in has moved a stored
\* clause to another level than the one its upload gave it
C2_Witness ==
    /\ args.op = "analyze_clause" /\ response.status = 200
    /\ result.llm.kind = "dict"
    /\ \E c \in DOMAIN contracts :
          \E i \in 1..Len(contracts[c].clauses) :
              /\ contracts[c].clauses[i].id = args.clause_id
              /\ contracts[c].clauses[i].risk_level
                     # ProcessClause(c, i - 1, contracts[c].clauses[i].text).clause.risk_level
              /\ \E e \in index : e.id = args.clause_id
                                    /\ e.text = contracts[c].clauses[i].text

-----------------------------------------------------------------------------
(* C6: a chat query on an existing contract for which the search retrieved  *)
(* at least one clause always gets an answer with the clause summaries; when*)
(* the completion capability is disabled, cannot be constructed or raises,  *)
(* the answer is the rule-based one and no error reaches the caller.        *)
C6_ChatNeverErrors ==
    (/\ args.op = "chat_with_contract"
     /\ args.contract_id \in DOMAIN contracts
     /\ "retrieved" \in DOMAIN result
     /\ result.retrieved >= 1) =>
        /\ response.status = 200
        /\ Len(response.relevant_clauses) = result.retrieved
        /\ (result.llm.kind # "text") =>
               response.answer = build_rule_based_chat_answer(args.query,
                                                              response.relevant_clauses)

-----------------------------------------------------------------------------
(* C7: after any sequence of uploads and re-analyses, for every clause of a *)
(* stored contract the collection's entry with the clause's id holds the    *)
(* clause's current text, type and risk level.                              *)
C7_IndexEntryCurrent ==
    \A c \in DOMAIN contracts :
        \A i \in 1..Len(contracts[c].clauses) :
            \E e \in index :
                /\ e.id = contracts[c].clauses[i].id
                /\ e.text = contracts[c].clauses[i].text
                /\ e.metadata.clause_type = contracts[c].clauses[i].clause_type
                /\ Some(e.metadata.risk_level) = contracts[c].clauses[i].risk_level


-----------------------------------------------------------------------------
(* C11: split_into_clauses returns the empty list for the empty text under  *)
(* any min_length, and for any text shorter than min_length.                *)
C11_EmptyOrShortGivesNothing ==
    (result # Pending /\ "contract_text" \in DOMAIN args) =>
        ((args.contract_text = << >> \/ Len(args.contract_text) < args.min_length)
            => result.clauses = << >>)

\* a text that is only too short: with no minimum it would give a clause
C11_Witness ==
    /\ result # Pending /\ "contract_text" \in DOMAIN args
    /\ args.contract_text # << >>
    /\ Len(args.contract_text) < args.min_length
    /\ split_into_clauses(args.contract_text, 0).clauses # << >>
    /\ result.clauses = << >>


-----------------------------------------------------------------------------
(* C12: whatever the clause, the use_llm setting and the completion, the    *)
(* list suggest_negotiation_points returns has at most 5 members and no two *)
(* of them are equal once lower-cased.                                      *)
C12_AtMostFiveUnique ==
    (result # Pending /\ "suggest_for" \in DOMAIN args /\ ~result.raised) =>
        /\ Len(result.value) <= 5
        /\ \A i, j \in 1..Len(result.value) :
              i # j => StrLower(result.value[i]) # StrLower(result.value[j])

\* the completion repeated a rule-based suggestion in capitals and that
\* copy is not returned
C12_Witness ==
    /\ result # Pending /\ "suggest_for" \in DOMAIN args /\ ~result.raised
    /\ args.use_llm /\ result.llm.kind = "list"
    /\ Len(get_rule_based_suggestions(args.suggest_for)) = 3
    /\ result.llm.items = <<"REQUEST CLEARER DEFINITIONS OF KEY TERMS", "Ask for arbitration">>
    /\ Len(result.value) = 4

\* C13: whenever retrieval yields nothing, the answer is the one fixed
\* apology with no matched clauses and no error, the same string whether
\* the chat handler or the rule-based answer builder meets the empty case
C13_OneApology ==
    (result # Pending /\ args.retrieved = << >>) =>
        IF result.by = "chat_with_contract"
        THEN response = [status |-> 200, answer |-> <<TextPart(ChatApology)>>,
                         relevant_clauses |-> << >>]
        ELSE result.answer = <<TextPart(ChatApology)>>

\* C14: a re-analysis request that names a contract id or a clause id that
\* does not exist is answered with a not-found error and leaves every
\* stored contract and every index entry as it was
C14_NotFoundChangesNothing ==
    [][(/\ args'.op = "analyze_clause"
        /\ \/ args'.contract_id \notin DOMAIN contracts
           \/ \A i \in 1..Len(contracts[args'.contract_id].clauses) :
                 contracts[args'.contract_id].clauses[i].id # args'.clause_id)
       => /\ response' \in {HTTP(404, "Contract not found"), HTTP(404, "Clause not found")}
          /\ (response'.detail = "Contract not found")
                = (args'.contract_id \notin DOMAIN contracts)
          /\ contracts' = contracts
          /\ index' = index]_vars

C14_Witness ==
    /\ args.op = "analyze_clause"
    /\ args.contract_id \in DOMAIN contracts
    /\ \A i \in 1..Len(contracts[args.contract_id].clauses) :
          contracts[args.contract_id].clauses[i].id # args.clause_id
    /\ response = HTTP(404, "Clause not found")
    /\ index # {}

-----------------------------------------------------------------------------
(* C15: after any sequence of upsert_clauses calls the index holds exactly  *)
(* one entry per upserted clause id, carrying the text and metadata of the  *)
(* most recent upsert of that id; an upsert of the empty list leaves the    *)
(* index unchanged.  Stated step by step: no two entries ever share an id,  *)
(* and each upsert_clauses call that returns leaves, for every clause of    *)
(* its list, the entry made from that clause, and every other entry as it   *)
(* was.                                                                     *)
C15_LatestUpsertWins ==
    /\ [](\A e, f \in index : e.id = f.id => e = f)
    /\ [][(args'.op = "upsert_clauses" /\ result' = [raised |-> FALSE])
           => /\ \A i \in 1..Len(args'.clauses) :
                    {e \in index' : e.id = args'.clauses[i].id} = {Entry(args'.clauses[i])}
              /\ {e \in index' : \A i \in 1..Len(args'.clauses) : e.id # args'.clauses[i].id}
                    = {e \in index : \A i \in 1..Len(args'.clauses) : e.id # args'.clauses[i].id}
              /\ (args'.clauses = << >> => index' = index)]_vars

C15_Witness ==
    /\ args.op = "upsert_clauses"
    /\ result = [raised |-> FALSE]
    /\ Len(args.clauses) = 1
    /\ Cardinality(index) = 2
    /\ Entry(args.clauses[1]) \in index

-----------------------------------------------------------------------------
-----------------------------------------------------------------------------
(* C17: with LLM enhancement disabled, every liability clause whose text    *)
(* has the word "unlimited" and the word indemnify or indemnification gets  *)
(* a score of at least 0.95 before the cap and at most 1.0 after it, the    *)
(* level high, and both the unlimited-liability reason and the              *)
(* indemnification reason.                                                  *)
C17_UnlimitedIndemnityIsHigh ==
    (/\ result # Pending
     /\ ~args.use_llm
     /\ args.clause.clause_type = "liability"
     /\ "unlimited" \in Range(Lower(args.clause.text))
     /\ Range(Lower(args.clause.text)) \cap {"indemnify", "indemnification"} # {})
    => /\ ~result.raised
       /\ UncappedScore(args.clause) >= 950
       /\ result.risk.score <= 1000
       /\ result.risk.level = "high"
       /\ result.clause.risk_level = Some("high")
       /\ {"Contains 'unlimited' liability", "Includes indemnification obligations"}
             \subseteq Range(result.risk.reasons)

\* the least such clause, one that also names a limitation, has been scored
C17_Witness ==
    /\ result # Pending
    /\ args.clause.clause_type = "liability"
    /\ "Unlimited" \in Range(args.clause.text)
    /\ "indemnification" \in Range(args.clause.text)
    /\ UncappedScore(args.clause) = 950
    /\ result.risk.score = 950

-----------------------------------------------------------------------------
(* C18: for any list of clauses and any min_length, merge_short_clauses     *)
(* only joins adjacent clauses: its output joined with single spaces equals *)
(* its input joined with single spaces, every unit is a run of adjacent     *)
(* clauses joined that way, there are never more units than clauses, the    *)
(* last accumulated unit is always emitted, and the empty list gives the    *)
(* empty list.                                                              *)
C18_MergeKeepsEverything ==
    (result # Pending) =>
        /\ JoinSpace(result.value) = JoinSpace(args.clauses)
        /\ Len(result.value) <= Len(args.clauses)
        /\ \A k \in 1..Len(result.value) :
              \E a, b \in 1..Len(args.clauses) :
                  a <= b /\ result.value[k] = JoinSpace(SubSeq(args.clauses, a, b))
        /\ (args.clauses = << >>) = (result.value = << >>)
        /\ args.clauses # << >> =>
              \E a \in 1..Len(args.clauses) :
                  result.value[Len(result.value)]
                      = JoinSpace(SubSeq(args.clauses, a, Len(args.clauses)))

\* two short clauses were joined and the last unit was emitted although it
\* is shorter than min_length
C18_Witness ==
    /\ result # Pending
    /\ Len(args.clauses) = 3
    /\ Len(result.value) = 2
    /\ result.value[1] = <<"a", " ", "a", "b", ".">>
    /\ Len(result.value[2]) < args.min_length

-----------------------------------------------------------------------------
(* C19: two re-analysis requests on two different clauses of one contract   *)
(* are independent: under every interleaving of their load, modify and save *)
(* steps, the stored contract after both have completed holds the new text  *)
(* and the analysis of both clauses.                                        *)
C19_NoLostUpdate ==
    (/\ \A r \in Requests : result[r].pc = "done" /\ response[r].status = 200
     /\ args[1].clause_id # args[2].clause_id)
    => \A r \in Requests :
          \E i \in 1..Len(contracts[args[r].contract_id].clauses) :
              contracts[args[r].contract_id].clauses[i] = response[r].clause

-----------------------------------------------------------------------------
(* C20: the cached handles are created lazily on first use; under every     *)
(* interleaving of concurrent first calls each caller that returns has a    *)
(* fully constructed handle; the cache never holds anything but a fully     *)
(* constructed handle and holds one once a call has returned; it changes    *)
(* only when a caller stores the handle it has just built (the last writer  *)
(* wins); and a call that finds a handle in the cache constructs none and   *)
(* returns with the handle the cache holds.                                 *)
C20_CacheHoldsBuiltHandle ==
    /\ [](\A n \in Caches : index[n] # None => index[n][1].constructed)
    /\ [](\A c \in Callers :
            /\ result[c].calls = 0 => \A n \in Caches : \A h \in Range(index[n]) : h.by # c
            /\ result[c].pc = "returned" =>
                  /\ result[c].got # None
                  /\ result[c].got[1].constructed
                  /\ index[args[c].cache] # None
            /\ result[c].seen # None =>
                  /\ result[c].local = None
                  /\ result[c].pc \in {"use", "returned"})
    /\ [][\A c \in Callers :
             (result[c].pc = "use" /\ result'[c].pc = "returned") =>
                 result'[c].got = index[args[c].cache]]_vars
    /\ [][\A n \in Caches :
             (index'[n] # index[n] /\ index'[n] # None) =>
                 \E c \in Callers :
                     /\ args[c].cache = n
                     /\ result[c].pc = "built"
                     /\ index'[n] = result[c].local
                     /\ result'[c].pc = "use"]_vars

\* both callers found the cache empty and built a handle each; the cache
\* holds the second writer's handle and the first writer has returned with it
C20_Witness ==
    /\ \A c \in Callers :
          /\ args[c].cache = "_embedding_model"
          /\ result[c].calls = 1
          /\ result[c].seen = None
          /\ result[c].pc = "returned"
          /\ result[c].local # None
    /\ result[1].got = result[2].local
    /\ result[2].got = result[2].local
    /\ index["_embedding_model"] = result[2].local

-----------------------------------------------------------------------------
(* C21: with LLM enhancement disabled, the score of a clause is             *)
(* min(1.0, base score of its type + the deltas of the adjustments that     *)
(* fire), where the adjustments of a type fire only for clauses of that     *)
(* type and the three general ones (irrevocable, perpetual, waive) for      *)
(* every type; the reasons are one per fired adjustment, in order, or the   *)
(* single reason "Standard <type> clause" when none fired.                  *)
C21_OwnAndGeneral(clause) ==
    (CASE clause.clause_type = "liability" -> LiabilityAdjustments(Lower(clause.text))
       [] clause.clause_type = "termination" -> TerminationAdjustments(Lower(clause.text))
       [] clause.clause_type = "non_compete" -> NonCompeteAdjustments(Lower(clause.text))
       [] clause.clause_type = "ip" -> IpAdjustments(Lower(clause.text))
       [] clause.clause_type = "payment" -> PaymentAdjustments(Lower(clause.text))
       [] OTHER -> << >>)
    \o GeneralAdjustments(Lower(clause.text))

C21_RuleScoreIsBasePlusFired ==
    (result # Pending /\ ~args.use_llm) =>
        LET fired == SelectSeq(C21_OwnAndGeneral(args.clause), LAMBDA a : a.on)
        IN  /\ ~result.raised
            /\ result.risk.score
                  = Min(1000, type_risk(args.clause.clause_type)
                                + SumSeq([k \in 1..Len(fired) |-> fired[k].delta]))
            /\ result.risk.reasons
                  = IF fired = << >>
                    THEN <<"Standard " \o args.clause.clause_type \o " clause">>
                    ELSE [k \in 1..Len(fired) |-> fired[k].reason]

\* a payment clause whose text has a liability trigger and a general one:
\* only the general adjustment is applied
C21_Witness ==
    /\ result # Pending
    /\ args.clause.clause_type = "payment"
    /\ args.clause.text = <<"Unlimited", "waive">>
    /\ result.risk.score = 300
    /\ result.risk.reasons = <<"Contains rights waiver">>

-----------------------------------------------------------------------------
(* C22: with LLM enhancement enabled, when a step of the enhancement path   *)
(* fails (no client, the call raises, the result is no dict, the score is   *)
(* no number, the reasons cannot be appended), the score, level and reasons *)
(* returned and written to the clause are exactly those of rule-only        *)
(* scoring; when the path succeeds the score is                             *)
(* 0.7 * llm_score + 0.3 * rule_score and the LLM reasons follow the rule   *)
(* reasons.                                                                 *)
C22_PathFails(llm) ==
    \/ llm.kind \in {"no_client", "raises", "not_dict"}
    \/ llm.score_kind = "text"
    \/ llm.reasons_kind = "scalar"

C22_AllOrNothing ==
    (result # Pending /\ "clause" \in DOMAIN args /\ args.use_llm) =>
        LET rule == calculate_risk_score(args.clause)
            llm_score == IF result.llm.score_kind = "absent" THEN 500 ELSE result.llm.score
        IN  IF C22_PathFails(result.llm)
            THEN /\ ~result.raised
                 /\ result.risk.score = rule.score
                 /\ result.risk.level = score_to_level(rule.score)
                 /\ result.risk.reasons = rule.reasons
                 /\ result.clause.risk_score = Some(rule.score)
                 /\ result.clause.risk_level = Some(score_to_level(rule.score))
            ELSE ~result.raised =>
                 /\ result.risk.score = (7 * llm_score + 3 * rule.score) \div 10
                 /\ result.risk.reasons = rule.reasons \o result.llm.reasons

-----------------------------------------------------------------------------
(* lexguard/llm/gemini_client.py, ollama_client.py: chat_structured on the *)
(* raw completion text, and the two functions that consume its value       *)

\* what self.chat(...) hands chat_structured: an exception, a text that
\* json.loads rejects, or a text that parses to value
RawRaises == [kind |-> "raises"]

RawMalformed == [kind |-> "text", parses |-> FALSE]

RawJson(value) == [kind |-> "text", parses |-> TRUE, value |-> value]

\* the payload both clients return on json.JSONDecodeError,
\* {"error": "Failed to parse structured output", ...}, as
\* _calculate_risk_with_llm reads it: a dict without "score" and "reasons"
FallbackPayloadForRisk == Structured("dict", "absent", 0, "absent", << >>)

\* the same payload as _get_llm_suggestions reads it: a dict without
\* "suggestions"
FallbackPayloadForSuggestions == Suggested("other", "strings", << >>)

\* chat_structured, called by _calculate_risk_with_llm
chat_structured_risk(raw) ==
    IF raw.kind = "raises" THEN Structured("raises", "absent", 0, "absent", << >>)
    ELSE IF ~raw.parses THEN FallbackPayloadForRisk
    ELSE raw.value

\* chat_structured, called by _get_llm_suggestions
chat_structured_suggestions(raw) ==
    IF raw.kind = "raises" THEN Suggested("raises", "strings", << >>)
    ELSE IF ~raw.parses THEN FallbackPayloadForSuggestions
    ELSE raw.value

\* the providers whose client parses the completion itself
ParsingSettings ==
    {[llm_provider |-> "gemini", has_key |-> TRUE], [llm_provider |-> "ollama", has_key |-> FALSE]}

RawForRisk(s) ==
    {RawRaises, RawMalformed}
        \cup {RawJson(v) : v \in {o \in StructuredOutcomes(s) : o.kind \in {"dict", "not_dict"}}}

RawForSuggestions(s) ==
    {RawRaises, RawMalformed}
        \cup {RawJson(v) : v \in {o \in SuggestionOutcomes(s) : o.kind \in {"dict", "list", "other"}}}

InitStructured ==
    /\ settings \in ParsingSettings
    /\ contracts = Idle /\ index = Idle /\ response = Idle
    /\ args \in {[clause |-> Clause("c_clause_0", "c", 0, text, ty), use_llm |-> TRUE, raw |-> raw] :
                    text \in LlmRiskTexts, ty \in ClauseTypeSet, raw \in RawForRisk(settings)}
                \cup {[suggest_for |-> [Clause("c_clause_0", "c", 0, << >>, ty)
                                           EXCEPT !.risk_level = Some(level)],
                       use_llm |-> TRUE, raw |-> raw] :
                        ty \in ClauseTypeSet, level \in RiskLevels,
                        raw \in RawForSuggestions(settings)}
    /\ result = Pending

\* calculate_clause_risk(clause, True) when the provider's chat gives raw
CallRiskOnCompletion ==
    /\ result = Pending
    /\ "clause" \in DOMAIN args
    /\ result' = calculate_clause_risk(args.clause, args.use_llm, chat_structured_risk(args.raw))
    /\ UNCHANGED <<settings, contracts, index, response, args>>

\* suggest_negotiation_points(clause, True) when the provider's chat gives raw
CallSuggestOnCompletion ==
    /\ result = Pending
    /\ "suggest_for" \in DOMAIN args
    /\ result' = suggest_negotiation_points(args.suggest_for, args.use_llm,
                                            chat_structured_suggestions(args.raw))
    /\ UNCHANGED <<settings, contracts, index, response, args>>

NextStructured ==
    \/ CallRiskOnCompletion
    \/ CallSuggestOnCompletion

SpecStructured == InitStructured /\ [][NextStructured]_vars

-----------------------------------------------------------------------------
(* C23: a completion whose structured output does not parse is treated as  *)
(* a failure of the capability: risk scoring then gives exactly what it    *)
(* gives when the capability raises, the rule-only score and reasons, and  *)
(* negotiation gives exactly the rule-based suggestions                    *)

C23_MalformedIsFailure ==
    (result # Pending /\ args.raw = RawMalformed) =>
        IF "clause" \in DOMAIN args
        THEN LET rule == calculate_risk_score(args.clause)
             IN  /\ result = calculate_clause_risk(args.clause, TRUE, chat_structured_risk(RawRaises))
                 /\ ~result.raised
                 /\ result.risk.score = rule.score
                 /\ result.risk.reasons = rule.reasons
        ELSE /\ result = suggest_negotiation_points(args.suggest_for, TRUE,
                                                    chat_structured_suggestions(RawRaises))
             /\ result = suggest_negotiation_points(args.suggest_for, FALSE,
                                                    chat_structured_suggestions(RawRaises))

-----------------------------------------------------------------------------
(* calculate_clause_risk(clause, False) on texts that state a duration     *)

MaxDurationWords == 3

DurationWords == {"5", "20", "45", "month", "months", "years", "worldwide"}

DurationTexts == SeqsUpTo(DurationWords, MaxDurationWords)

InitDuration ==
    /\ settings = NoSettings
    /\ contracts = Idle /\ index = Idle /\ response = Idle
    /\ args \in {[clause |-> Clause("c_clause_0", "c", 0, text, ty), use_llm |-> FALSE] :
                    text \in DurationTexts, ty \in ClauseTypeSet}
    /\ result = Pending

NextDuration == CallCalculateClauseRisk

SpecDuration == InitDuration /\ [][NextDuration]_vars

-----------------------------------------------------------------------------
(* C24: for a non-compete clause the duration is the number of the first   *)
(* "<N> year|month" match, in months by the unit matched with that number  *)
(* (N*12 for years, N for months); more than 24 months adds 0.3 only, more *)
(* than 12 and at most 24 months adds 0.15 only, 12 months or less nothing *)

\* the months of the first "<N> year|month" match by its own unit, or 0
C24_MatchedMonths(t) ==
    LET hits == {i \in 1..Len(t) :
                    MatchesAt(<<NumberWords, {"year", "years", "month", "months"}>>, t, i)}
        m == CHOOSE i \in hits : \A j \in hits : i <= j
    IN  IF hits = {} THEN 0
        ELSE IF t[m + 1] \in {"year", "years"} THEN IntOf(t[m]) * 12 ELSE IntOf(t[m])

C24_DurationByMatchedUnit ==
    (result # Pending /\ "clause" \in DOMAIN args /\ ~args.use_llm
        /\ args.clause.clause_type = "non_compete") =>
        LET t == Lower(args.clause.text)
            months == C24_MatchedMonths(t)
            tier == IF months > 24 THEN 300 ELSE IF months > 12 THEN 150 ELSE 0
            scope == IF Search(<<{"global", "globally", "worldwide"}>>, t) THEN 200 ELSE 0
        IN  /\ ~result.raised
            /\ result.risk.score = Min(1000, type_risk("non_compete") + tier + scope)

-----------------------------------------------------------------------------
(* C25: suggest_negotiation_points asks for augmentation only when use_llm *)
(* is set and the clause's level is medium or high; when the augmentation  *)
(* fails (no client, the call raising, a value that is no list of strings) *)
(* it returns exactly the rule-based suggestions and does not raise        *)

C25_AugmentationFails(llm) ==
    \/ llm.kind \in {"no_client", "raises", "other"}
    \/ llm.items_kind # "strings"

C25_FailureGivesRuleBased ==
    (result # Pending /\ "suggest_for" \in DOMAIN args /\ "llm" \in DOMAIN result) =>
        LET requested == args.use_llm
                            /\ args.suggest_for.risk_level \in {Some("medium"), Some("high")}
        IN  (~requested \/ C25_AugmentationFails(result.llm)) =>
                /\ ~result.raised
                /\ result.value = get_rule_based_suggestions(args.suggest_for)

-----------------------------------------------------------------------------
(* C26: every ClauseRisk the upload pipeline, the risk summary and the     *)
(* report produce has recommendations only if its level is medium or high; *)
(* a low-risk clause carries none                                          *)

C26_Produced ==
    IF args.op = "upload_contract" /\ "risks" \in DOMAIN result THEN result.risks
    ELSE IF args.op = "get_contract_risk" /\ "clause_risks" \in DOMAIN response
    THEN response.clause_risks
    ELSE IF args.op = "download_report" /\ "report" \in DOMAIN response THEN response.report
    ELSE << >>

C26_RecommendationsOnlyAboveLow ==
    \A i \in 1..Len(C26_Produced) :
        C26_Produced[i].recommendations # << >> => C26_Produced[i].level \in {"medium", "high"}

-----------------------------------------------------------------------------
(* _build_rule_based_chat_answer on lists of up to MaxListed clauses       *)

MaxListed == 6

BuilderQuestions == SeqsUpTo(QuestionWords \cup {"ownership"}, MaxQuestionWords)

\* the summaries the handler passes: one that the payment and termination
\* filters keep ("end" occurs in "vendor"), one that no filter keeps
BuilderClauses ==
    {RelevantClause(Found("c1_clause_0", <<"vendor", "fees">>, "payment", "low")),
     RelevantClause(Found("c1_clause_3", <<"hello">>, "misc", "unknown"))}

InitBuilder ==
    /\ settings = NoSettings
    /\ contracts = Idle /\ index = Idle /\ response = Idle
    /\ args \in {[question |-> q, clauses |-> c] :
                    q \in BuilderQuestions, c \in SeqsUpTo(BuilderClauses, MaxListed)}
    /\ result = Pending

CallBuilder ==
    /\ result = Pending
    /\ "clauses" \in DOMAIN args
    /\ result' = [answer |-> build_rule_based_chat_answer(args.question, args.clauses)]
    /\ UNCHANGED <<settings, contracts, index, response, args>>

NextBuilder == CallBuilder

SpecBuilder == InitBuilder /\ [][NextBuilder]_vars

-----------------------------------------------------------------------------
(* C27: for a non-empty list of retrieved clauses the rule-based answer    *)
(* holds exactly one titled section, that of the first bucket in the order *)
(* obligations, payment, termination, liability, dates, ip whose trigger   *)
(* occurs in the lower-cased query (the general section if none does); it  *)
(* lists 1 to 5 snippets, the first three retrieved clauses when the       *)
(* bucket's filter keeps none, and ends with the constant closing tip      *)

\* the first bucket one of whose triggers occurs in the lower-cased query
C27_Bucket(question) ==
    LET q == Lower(question)
        hit == {b \in 1..Len(Buckets) : \E k \in TRIGGERS(Buckets[b]) : OccursIn(k, q)}
    IN  IF hit = {} THEN "general" ELSE Buckets[CHOOSE b \in hit : \A o \in hit : b <= o]

C27_Headings == {Heading(b) : b \in Range(Buckets) \cup {"general"}}

C27_Items(answer) == SelectSeq(answer, LAMBDA part : part.kind = "item")

C27_NoneKept(bucket, clauses) ==
    bucket # "general" /\ \A i \in 1..Len(clauses) : ~InBucket(bucket, clauses[i])

C27_OneSectionOneToFiveSnippets ==
    (result # Pending /\ "clauses" \in DOMAIN args /\ args.clauses # << >>) =>
        LET answer == result.answer
            bucket == C27_Bucket(args.question)
            items == C27_Items(answer)
            firsts == SubSeq(args.clauses, 1, Min(3, Len(args.clauses)))
        IN  /\ {i \in 1..Len(answer) :
                    answer[i].kind = "text" /\ answer[i].text \in C27_Headings} = {1}
            /\ answer[1] = TextPart(Heading(bucket))
            /\ 1 <= Len(items) /\ Len(items) <= 5
            /\ \A i \in 1..Len(items) : items[i].n = i
            /\ C27_NoneKept(bucket, args.clauses) =>
                  [i \in 1..Len(items) |-> items[i].snippet]
                      = [i \in 1..Len(firsts) |-> firsts[i].text]
            /\ answer[Len(answer)] = TextPart(ClosingTip)
            /\ Len(answer) = Len(items) + 3

\* a liability question on four clauses the liability filter does not keep
\* is answered with the first three
C27_Witness ==
    /\ result # Pending /\ "clauses" \in DOMAIN args
    /\ C27_Bucket(args.question) = "liability"
    /\ Len(args.clauses) = 4
    /\ C27_NoneKept("liability", args.clauses)
    /\ Len(C27_Items(result.answer)) = 3

-----------------------------------------------------------------------------
(* calculate_clause_risk(clause, False) on texts that pile up red flags    *)

MaxFlagWords == 3

FlagWords == {"irrevocable", "perpetual", "waive", "unlimited", "limited", "pre-existing"}

FlagTexts == SeqsUpTo(FlagWords, MaxFlagWords)

InitFlags ==
    /\ settings = NoSettings
    /\ contracts = Idle /\ index = Idle /\ response = Idle
    /\ args \in {[clause |-> Clause("c_clause_0", "c", 0, text, ty), use_llm |-> FALSE] :
                    text \in FlagTexts, ty \in ClauseTypeSet}
    /\ result = Pending

NextFlags == CallCalculateClauseRisk

SpecFlags == InitFlags /\ [][NextFlags]_vars

-----------------------------------------------------------------------------
(* C28: under rule-only scoring the level is bounded by the clause type    *)
(* whatever the text: a liability, non-compete, termination or ip clause   *)
(* is never low and never scores below its base; a misc or confidentiality *)
(* clause is never high, and a misc clause always scores below 0.5         *)

C28_LevelBoundedByType ==
    (result # Pending /\ "clause" \in DOMAIN args /\ ~args.use_llm) =>
        LET ty == args.clause.clause_type
        IN  /\ ~result.raised
            /\ ty \in {"liability", "non_compete", "termination", "ip"} =>
                  /\ result.risk.level # "low"
                  /\ result.risk.score >= type_risk(ty)
                  /\ result.clause.risk_level # Some("low")
            /\ ty \in {"misc", "confidentiality"} =>
                  /\ result.risk.level # "high"
                  /\ result.clause.risk_level # Some("high")
            /\ ty = "misc" => result.risk.score < 500

\* a confidentiality clause with all three general red flags stays medium
C28_Witness ==
    /\ result # Pending /\ "clause" \in DOMAIN args /\ ~args.use_llm
    /\ args.clause.clause_type = "confidentiality"
    /\ args.clause.text = <<"irrevocable", "perpetual", "waive">>
    /\ result.risk.score = 650
    /\ result.risk.level = "medium"

-----------------------------------------------------------------------------
(* C29: for a clause of a type with five canned suggestions (liability,    *)
(* termination, non_compete, ip, confidentiality, payment)                 *)
(* suggest_negotiation_points returns exactly those five in table order    *)
(* whatever the completion returns; augmented suggestions appear only for  *)
(* the other types, after the three generic ones, and at most two of them  *)

C29_CannedTypes ==
    {"liability", "termination", "non_compete", "ip", "confidentiality", "payment"}

C29_CannedFiveWhateverCompletion ==
    (result # Pending /\ "suggest_for" \in DOMAIN args /\ "llm" \in DOMAIN result) =>
        LET canned == get_rule_based_suggestions(args.suggest_for)
        IN  IF args.suggest_for.clause_type \in C29_CannedTypes
            THEN /\ Len(canned) = 5
                 /\ ~result.raised
                 /\ result.value = canned
            ELSE ~result.raised =>
                    /\ Len(canned) = 3
                    /\ SubSeq(result.value, 1, 3) = canned
                    /\ Len(result.value) <= 5

-----------------------------------------------------------------------------
(* C30: rule-based classification never returns unsure: for every text the *)
(* result is misc or one of the six types that have a pattern list; so     *)
(* with use_llm off no clause stored by upload or by re-analysis has type  *)
(* unsure                                                                  *)

C30_RuleTypes ==
    {"misc", "termination", "liability", "payment", "confidentiality", "ip", "non_compete"}

C30_RulesNeverUnsure ==
    /\ (result # Pending /\ "text" \in DOMAIN args /\ "op" \notin DOMAIN args) =>
          /\ classify_with_rules(args.text) \in C30_RuleTypes
          /\ ~args.use_llm =>
                /\ ~result.raised
                /\ ~result.llm_called
                /\ result.clause_type \in C30_RuleTypes
    /\ "op" \in DOMAIN args =>
          \A c \in DOMAIN contracts :
              \A i \in 1..Len(contracts[c].clauses) :
                  contracts[c].clauses[i].clause_type \in C30_RuleTypes

\* a text that no pattern matches has been classified without the LLM
C30_Witness ==
    /\ result # Pending /\ "text" \in DOMAIN args
    /\ ~args.use_llm
    /\ args.text = <<"of">>
    /\ result.clause_type = "misc"

=============================================================================
